---- MODULE Spec2Model ----
(***************************************************************************)
(* Model of granary's AS1 <-> microformats2 conversion engine              *)
(* (src/granary/microformats2.py).                                        *)
(*                                                                         *)
(* Python values are modelled as tagged records, so that "is it a list",   *)
(* "is it a dict", truthiness and null trimming are decided by the model   *)
(* the way Python decides them:                                            *)
(*   None        [t |-> "null"]                                            *)
(*   str         [t |-> "str",  s |-> <<tokens>>]                          *)
(*   int         [t |-> "int",  n |-> n]                                   *)
(*   float       [t |-> "float", f |-> "3.5"]                              *)
(*   list        [t |-> "list", l |-> <<values>>]                          *)
(*   dict        [t |-> "dict", d |-> [key |-> value]]                     *)
(* A str is a sequence of tokens.  Text that the code indexes or searches  *)
(* (content) is one token per code point; identifiers and URLs, which the  *)
(* code only copies and compares, are a single token.  Markup emitted by   *)
(* the renderers is one token per literal fragment of its format string.   *)
(***************************************************************************)
EXTENDS Integers, Sequences, FiniteSets, TLC

VARIABLES
  obj,      \* the AS1 object the caller holds (argument of object_to_json)
  obj0,     \* deep copy of obj taken before the first call
  mf2,      \* the MF2 item the caller holds (argument of json_to_object/json_to_html)
  mf20,     \* deep copy of mf2 taken before the first call
  args,     \* keyword arguments of the calls made in this run
  rets,     \* results of the calls made so far, oldest first
  page,     \* parsed items of the page given to html_to_activities
  op,       \* name of the function the run exercises ("" before it is chosen)
  clock,                  \* datetime.datetime.now(), in seconds since the start
  last_rate_limited,      \* instagram.py's module global _last_rate_limited
  last_rate_limited_exc,  \* instagram.py's module global _last_rate_limited_exc
  threads,  \* per thread, its call of Instagram.get_activities_response
  log,      \* the calls of get_activities_response that have ended, oldest first
  cache,    \* contents of the cache object handed to Instagram._scrape
  cache_calls,  \* the calls _scrape has made on the cache, oldest first
  scrape    \* the running call of Instagram._scrape: its position and locals

\* the state of the microformats2 callers
mf_vars == <<obj, obj0, mf2, mf20, args, rets, page, op>>

\* the state of the instagram.py callers
instagram_vars == <<clock, last_rate_limited, last_rate_limited_exc, threads, log,
                    cache, cache_calls, scrape>>

vars == <<mf_vars, instagram_vars>>

----------------------------------------------------------------------------
(* Python values *)

Null == [t |-> "null"]
Absent == [t |-> "absent"]   \* marks a key left out of a dict literal
Str(s) == [t |-> "str", s |-> s]
S(tok) == Str(<<tok>>)
Num(n) == [t |-> "int", n |-> n]
Float(f) == [t |-> "float", f |-> f]
List(l) == [t |-> "list", l |-> l]
Dict(d) == [t |-> "dict", d |-> d]
EmptyStr == Str(<<>>)
EmptyList == List(<<>>)
EmptyDict == Dict(<<>>)
Raise(e) == [t |-> "raise", e |-> e]

IsNull(v) == v.t = "null"
IsStr(v) == v.t = "str"
IsList(v) == v.t = "list"
IsDict(v) == v.t = "dict"
IsRaise(v) == v.t = "raise"

\* bool(v)
Truthy(v) ==
  CASE v.t = "null" -> FALSE
    [] v.t = "str" -> v.s # <<>>
    [] v.t = "int" -> v.n # 0
    [] v.t = "list" -> v.l # <<>>
    [] v.t = "dict" -> DOMAIN v.d # {}
    [] OTHER -> TRUE

\* a or b
Or(a, b) == IF Truthy(a) THEN a ELSE b

\* dict literal from <<key, value>> pairs (keys distinct); Absent values leave
\* the key out
FromPairs(ps) ==
  LET present == {i \in DOMAIN ps : ps[i][2] # Absent}
  IN Dict([k \in {ps[i][1] : i \in present} |->
            ps[CHOOSE i \in present : ps[i][1] = k][2]])

Has(d, k) == k \in DOMAIN d.d
\* d.get(k)
Get(d, k) == IF k \in DOMAIN d.d THEN d.d[k] ELSE Null
\* d.get(k, default)
GetD(d, k, default) == IF k \in DOMAIN d.d THEN d.d[k] ELSE default
\* d[k] = v
Put(d, k, v) == Dict([x \in DOMAIN d.d \cup {k} |-> IF x = k THEN v ELSE d.d[x]])
\* d.pop(k, None)
Del(d, k) == Dict([x \in DOMAIN d.d \ {k} |-> d.d[x]])

RECURSIVE SeqFilterNot(_, _)
\* the elements of seq that are not in the set bad, in order
SeqFilterNot(seq, bad) ==
  IF seq = <<>> THEN <<>>
  ELSE (IF Head(seq) \in bad THEN <<>> ELSE <<Head(seq)>>) \o SeqFilterNot(Tail(seq), bad)

RECURSIVE SeqFilterIn(_, _)
\* the elements of seq that are in the set good, in order
SeqFilterIn(seq, good) ==
  IF seq = <<>> THEN <<>>
  ELSE (IF Head(seq) \in good THEN <<Head(seq)>> ELSE <<>>) \o SeqFilterIn(Tail(seq), good)

RECURSIVE Flatten(_)
\* concatenation of a sequence of sequences
Flatten(ss) == IF ss = <<>> THEN <<>> ELSE Head(ss) \o Flatten(Tail(ss))

Range(seq) == {seq[i] : i \in DOMAIN seq}

----------------------------------------------------------------------------
(* oauth_dropins.webutil.util helpers, as microformats2.py uses them *)

\* strings int() accepts, among the ones the model feeds in
IntStrings == {"60", "123"}

\* util.is_int(arg): int(arg) succeeds and, for a number, equals arg
IsInt(v) ==
  CASE v.t = "int" -> TRUE
    [] v.t = "str" -> Len(v.s) = 1 /\ v.s[1] \in IntStrings
    [] OTHER -> FALSE

\* str(v)
PyStr(v) ==
  CASE v.t = "int" -> S(ToString(v.n))
    [] v.t = "float" -> S(v.f)
    [] v.t = "null" -> S("None")
    [] OTHER -> v

\* the tokens '%s' % v contributes to a format result
Fmt(v) == PyStr(v).s

NULLS == {Null, EmptyStr, EmptyList, EmptyDict}

RECURSIVE TrimNulls(_)

\* mutant of TrimNulls: dict values are tested before they are trimmed
TrimNullsTopDown(v) ==
  CASE v.t = "dict" ->
         Dict([k \in {x \in DOMAIN v.d : v.d[x] \notin NULLS} |-> TrimNulls(v.d[k])])
    [] v.t = "list" ->
         LET trimmed == [i \in DOMAIN v.l |-> TrimNulls(v.l[i])]
             Keep[i \in 0..Len(v.l)] ==
               IF i = 0 THEN <<>>
               ELSE IF Truthy(trimmed[i]) /\ trimmed[i] \notin NULLS
                    THEN Append(Keep[i - 1], trimmed[i]) ELSE Keep[i - 1]
         IN List(Keep[Len(v.l)])
    [] OTHER -> v

\* util.trim_nulls(value): recursively drops dict and list elements that are
\* None or empty
TrimNulls(v) ==
  CASE v.t = "dict" ->
         LET trimmed == [k \in DOMAIN v.d |-> TrimNulls(v.d[k])]
         IN Dict([k \in {x \in DOMAIN v.d : trimmed[x] \notin NULLS} |-> trimmed[k]])
    [] v.t = "list" ->
         LET trimmed == [i \in DOMAIN v.l |-> TrimNulls(v.l[i])]
             Keep[i \in 0..Len(v.l)] ==
               IF i = 0 THEN <<>>
               ELSE IF Truthy(trimmed[i]) /\ trimmed[i] \notin NULLS
                    THEN Append(Keep[i - 1], trimmed[i]) ELSE Keep[i - 1]
         IN List(Keep[Len(v.l)])
    [] OTHER -> v

\* util.get_list(obj, key): obj[key] as a list ([] when missing or falsy)
GetList(o, key) ==
  LET val == GetD(o, key, EmptyList)
  IN IF IsList(val) THEN val.l ELSE IF Truthy(val) THEN <<val>> ELSE <<>>

\* util.get_first(obj, key, default)
GetFirst(o, key, default) ==
  LET val == Get(o, key)
  IN IF ~Truthy(val) THEN default ELSE IF IsList(val) THEN val.l[1] ELSE val

RECURSIVE Uniquify(_)
\* util.uniquify(seq): first occurrences, in order
Uniquify(seq) ==
  IF seq = <<>> THEN <<>>
  ELSE LET init == Uniquify(SubSeq(seq, 1, Len(seq) - 1))
           last == seq[Len(seq)]
       IN IF last \in Range(init) THEN init ELSE Append(init, last)

\* util.dedupe_urls(urls): drops blanks and repeated URLs, order preserved.
\* (The library also normalises scheme and host case; the model's URLs are
\* already in normal form.)
DedupeUrls(urls) == Uniquify(SeqFilterNot(urls, {Null, EmptyStr}))

\* util.get_url(val): val['url'] if val is a dict, otherwise val
GetUrlOf(val) == IF IsDict(val) THEN Get(val, "url") ELSE val

\* util.get_urls(obj, key): the URL of each element of obj[key], deduped
GetUrls(o, key) ==
  LET elems == GetList(o, key)
  IN DedupeUrls([i \in DOMAIN elems |-> GetUrlOf(elems[i])])

\* util.get_url(obj, key): first of get_urls(obj, key), or None
GetUrl(o, key) ==
  LET urls == GetUrls(o, key) IN IF urls = <<>> THEN Null ELSE urls[1]

\* util.get_urls(obj, key, inner_key), given elems = obj[key]: the URL of
\* elem[inner_key] for each element, deduped
GetUrlsInner(elems, inner) ==
  DedupeUrls([i \in DOMAIN elems |->
                  IF IsDict(elems[i]) THEN GetUrl(elems[i], inner) ELSE Null])

----------------------------------------------------------------------------
(* granary.source helpers *)

\* source.object_type(obj): the objectType, or the verb for an activity
object_type(o) ==
  LET type == Get(o, "objectType")
  IN IF Truthy(type) /\ type # S("activity") THEN type ELSE Get(o, "verb")

\* Source.postprocess_object(obj): prunes null and empty leaves
postprocess_object(o) == TrimNulls(o)

----------------------------------------------------------------------------
(* Text *)

\* lexicographic order of the single-token strings the model sorts
Lexicon == <<"", "alice", "bob", "http://a/1", "http://b/2", "http://c/3",
             "http://x/1", "https://github.com/o/r", "tag", "tag:x,2020:1">>

LexRank(tok) == CHOOSE i \in DOMAIN Lexicon : Lexicon[i] = tok

\* a < b for single-token (or empty) strings
StrLess(a, b) ==
  LexRank(IF a.s = <<>> THEN "" ELSE a.s[1]) < LexRank(IF b.s = <<>> THEN "" ELSE b.s[1])

Whitespace == {" ", "\n"}

RECURSIVE LStrip(_)
LStrip(s) == IF s # <<>> /\ Head(s) \in Whitespace THEN LStrip(Tail(s)) ELSE s

RECURSIVE RStrip(_)
RStrip(s) ==
  IF s # <<>> /\ s[Len(s)] \in Whitespace THEN RStrip(SubSeq(s, 1, Len(s) - 1)) ELSE s

\* str.strip()
Strip(v) == Str(RStrip(LStrip(v.s)))

\* xml.sax.saxutils.unescape(text): &lt; &gt; &amp; become < > &
Unescape(v) ==
  Str([i \in DOMAIN v.s |->
        CASE v.s[i] = "&lt;" -> "<" [] v.s[i] = "&gt;" -> ">"
          [] v.s[i] = "&amp;" -> "&" [] OTHER -> v.s[i]])

\* html.escape(text, quote=False): < > & become entities
Escape(v) ==
  Str([i \in DOMAIN v.s |->
        CASE v.s[i] = "<" -> "&lt;" [] v.s[i] = ">" -> "&gt;"
          [] v.s[i] = "&" -> "&amp;" [] OTHER -> v.s[i]])

\* the literal fragments of the renderers' format strings that contain '<'
LtFragments ==
  {"<a href=\"", "</a>", "<div style=\"white-space: pre\">", "</div>", "<br />",
   "<a class=\"u-bookmark-of\" href=\"", " this.</a>", "RT <a href=\"", "</a> ",
   " <a href=\"", "</a> by ", "\n<p>", "</p>", "\n</p>", "\n<a class=\"",
   "  <span class=\"", "\n  </span>\n", "<data class=\"p-uid\" value=\"",
   "\"></data>", "<data class=\"p-numeric-id\" value=\"",
   "<span class=\"p-nickname\">", "</span>", "<img class=\"u-photo\" src=\"",
   "<a class=\"", "<span class=\"", "<img src=\"",
   "<video class=\"u-video\" src=\"",
   "</a></video>", "<audio class=\"u-audio\" src=\"",
   "\">Click here to listen directly.</a></audio>",
   "\">Your browser does not support the video tag. <a href=\"",
   "\" controls=\"controls\">Your browser does not support the audio tag. <a href=\"",
   "\n<a class=\"link\" href=\"", "\n<span class=\"name\">", "\n</a>",
   "\n<span class=\"summary\">",
   "<article class=\"", "\">\n  <span class=\"p-uid\">", "</span>\n  ",
   "\n  <div class=\"", "\n  </div>\n", "\n</article>\n",
   "<div class=\"p-summary\">", "<time class=\"", "</time>",
   "  <a class=\"u-", "\"></a>", "<a class=\"u-", "<data class=\"p-rsvp\" value=\"",
   "</data>", "<data class=\"p-size\" value=\"", "<span class=\"u-category\">",
   "  <time class=\"dt-start\">", "  <time class=\"dt-end\">"}

\* '<' in text
HasLt(v) == \E i \in DOMAIN v.s : v.s[i] = "<" \/ v.s[i] \in LtFragments

\* '\n' in text, for text that is content (one token per code point)
HasNewline(v) == \E i \in DOMAIN v.s : v.s[i] = "\n"

\* s[a:b] for a Python string or list given as a sequence (None bound = Null)
PySlice(seq, a, b) ==
  LET n == Len(seq)
      Clamp(i) == IF i < 0 THEN (IF i + n < 0 THEN 0 ELSE i + n) ELSE IF i > n THEN n ELSE i
      lo == Clamp(a)
      hi == Clamp(b)
  IN IF lo >= hi THEN <<>> ELSE SubSeq(seq, lo + 1, hi)

RECURSIVE Join(_, _)
\* sep.join(parts): parts is a sequence of token sequences
Join(sep, parts) ==
  IF parts = <<>> THEN <<>>
  ELSE IF Len(parts) = 1 THEN parts[1]
  ELSE parts[1] \o sep \o Join(sep, Tail(parts))

\* sub occurs in seq as a run of consecutive tokens
Contains(seq, sub) ==
  \E i \in 0..(Len(seq) - Len(sub)) : SubSeq(seq, i + 1, i + Len(sub)) = sub

----------------------------------------------------------------------------
(* microformats2.py: small helpers *)

\* the mf2 class names x with x.startswith('h-')
HTypes == {S("h-entry"), S("h-card"), S("h-cite"), S("h-event"), S("h-feed"), S("h-geo")}

RECURSIVE get_string_urls(_)
\* get_string_urls(objs): the string URLs of a list of URLs or mf2 items
get_string_urls(objs) ==
  IF objs = <<>> THEN <<>>
  ELSE LET item == Head(objs)
           itemtype == IF IsDict(item)
                       THEN SeqFilterIn(GetD(item, "type", EmptyList).l, HTypes)
                       ELSE <<>>
           inner == Or(Get(item, "properties"), item)
       IN (IF IsStr(item) THEN <<item>>
           ELSE IF itemtype # <<>> THEN get_string_urls(GetD(inner, "url", EmptyList).l)
           ELSE <<>>) \o get_string_urls(Tail(objs))

\* get_text(val)
get_text(val) ==
  LET v == IF IsDict(val) THEN Get(val, "value") ELSE val
  IN IF Truthy(v) THEN Strip(v) ELSE EmptyStr

\* get_html(val)
get_html(val) ==
  IF IsDict(val) /\ Truthy(Get(val, "html")) THEN Strip(Get(val, "html"))
  ELSE Escape(get_text(val))

\* first_props(props): first value of each property, '' for an empty one
first_props(props) ==
  IF Truthy(props)
  THEN Dict([k \in DOMAIN props.d |-> GetFirst(props, k, EmptyStr)])
  ELSE EmptyDict

\* object_urls(obj): the object's unique URLs, in order
object_urls(o) ==
  LET urls == GetD(o, "urls", EmptyList).l
  IN Uniquify(TrimNulls(List(<<Get(o, "url")>> \o
                              [i \in DOMAIN urls |-> Get(urls[i], "value")])).l)

\* maybe_linked(text, url, linked_classname, unlinked_classname)
maybe_linked(text, url, linked_classname, unlinked_classname) ==
  IF Truthy(url)
  THEN (IF Truthy(linked_classname)
        THEN <<"<a class=\"">> \o linked_classname.s \o <<"\" href=\"">>
        ELSE <<"<a href=\"">>) \o Fmt(url) \o <<"\">">> \o Fmt(text) \o <<"</a>">>
  ELSE IF Truthy(unlinked_classname)
  THEN <<"<span class=\"">> \o unlinked_classname.s \o <<"\">">> \o Fmt(text) \o <<"</span>">>
  ELSE Fmt(text)

\* maybe_linked_name(props): a p-name with an optional u-url inside
maybe_linked_name(props) ==
  LET prop == first_props(props)
      name == Get(prop, "name")
      url == Get(prop, "url")
      html == IF Has(prop, "name") /\ name # Null
              THEN maybe_linked(name, url, S("p-name u-url"), S("p-name"))
              ELSE maybe_linked(Or(url, EmptyStr), url, S("u-url"), Null)
      extra_urls == PySlice(GetD(props, "url", EmptyList).l, 1, Len(GetD(props, "url", EmptyList).l))
  IN IF extra_urls # <<>>
     THEN html \o <<"\n">> \o
          Join(<<"\n">>, [i \in DOMAIN extra_urls |->
                           maybe_linked(EmptyStr, extra_urls[i], S("u-url"), Null)])
     ELSE html

\* img(src, alt)
img(src, alt) ==
  LET a == IF IsDict(src) THEN Or(Get(src, "alt"), EmptyStr) ELSE Or(alt, EmptyStr)
      u == IF IsDict(src) THEN Get(src, "value") ELSE src
  IN <<"<img class=\"u-photo\" src=\"">> \o Fmt(u) \o <<"\" alt=\"">> \o Fmt(a) \o <<"\" />">>

\* vid(src, poster)
vid(src, poster) ==
  <<"<video class=\"u-video\" src=\"">> \o Fmt(src) \o
  <<"\" controls=\"controls\" poster=\"">> \o Fmt(poster) \o
  <<"\">Your browser does not support the video tag. <a href=\"">> \o Fmt(src) \o
  <<"\">Click here to view directly. ">> \o
  (IF Truthy(poster) THEN <<"<img src=\"">> \o Fmt(poster) \o <<"\" />">> ELSE <<>>) \o
  <<"</a></video>">>

\* aud(src)
aud(src) ==
  <<"<audio class=\"u-audio\" src=\"">> \o Fmt(src) \o
  <<"\" controls=\"controls\">Your browser does not support the audio tag. <a href=\"">> \o
  Fmt(src) \o <<"\">Click here to listen directly.</a></audio>">>

\* maybe_datetime(str, classname)
maybe_datetime(str, classname) ==
  IF Truthy(str)
  THEN <<"<time class=\"">> \o classname.s \o <<"\" datetime=\"">> \o Fmt(str) \o
       <<"\">">> \o Fmt(str) \o <<"</time>">>
  ELSE <<>>

----------------------------------------------------------------------------
(* microformats2.py: lookup tables *)

\* AS_TO_MF2_TYPE.get(obj_type)
AS_TO_MF2_TYPE(obj_type) ==
  CASE obj_type = S("event") -> List(<<S("h-event")>>)
    [] obj_type = S("person") -> List(<<S("h-card")>>)
    [] obj_type = S("place") -> List(<<S("h-card"), S("p-location")>>)
    [] OTHER -> Null

\* ISO_6709_RE.match(position).groups() for the position strings of the model
ISO_6709_RE(position) ==
  CASE position = S("+10.5-20.5/") -> <<S("+10.5"), S("-20.5")>>
    [] OTHER -> <<Null, Null>>

\* re.search(r'^https?://(?:www\.|mobile\.)?twitter\.com/', url)
IsTwitterUrl(url) == url \in {S("https://twitter.com/u/1")}

----------------------------------------------------------------------------
(* microformats2.py: hcard_to_html, tags_to_html, _render_attachments,
   render_content, object_to_json *)

\* ' '.join(strs) for a sequence of Python strings
JoinStrs(sep, strs) == Join(<<sep>>, [i \in DOMAIN strs |-> strs[i].s])

\* hcard_to_html(hcard, parent_props)
hcard_to_html(hcard, parent_props) ==
  IF ~Truthy(hcard) THEN <<>>
  ELSE LET props == GetD(hcard, "properties", EmptyDict)
           prop == first_props(props)
           uids == SeqFilterNot(GetD(props, "uid", EmptyList).l, NULLS)
           nids == SeqFilterNot(GetD(props, "numeric-id", EmptyList).l, NULLS)
           nicks == SeqFilterNot(GetD(props, "nickname", EmptyList).l, NULLS)
           photos == SeqFilterNot(GetD(props, "photo", EmptyList).l, NULLS)
       IN IF ~Truthy(prop) THEN <<>>
          ELSE <<"  <span class=\"">> \o
               JoinStrs(" ", Uniquify(parent_props \o GetD(hcard, "type", EmptyList).l)) \o
               <<"\">\n    ">> \o
               Join(<<"\n">>,
                    [i \in DOMAIN uids |->
                      <<"<data class=\"p-uid\" value=\"">> \o Fmt(uids[i]) \o <<"\"></data>">>] \o
                    [i \in DOMAIN nids |->
                      <<"<data class=\"p-numeric-id\" value=\"">> \o Fmt(nids[i]) \o
                      <<"\"></data>">>]) \o
               <<"\n    ">> \o maybe_linked_name(props) \o <<"\n    ">> \o
               Join(<<"\n">>, [i \in DOMAIN nicks |->
                      <<"<span class=\"p-nickname\">">> \o Fmt(nicks[i]) \o <<"</span>">>]) \o
               <<"\n    ">> \o
               Join(<<"\n">>, [i \in DOMAIN photos |-> img(photos[i], EmptyStr)]) \o
               <<"\n  </span>\n">>

\* (url, name) pairs ordered as sorted() orders them
PairLess(a, b) == StrLess(a[1], b[1]) \/ (a[1] = b[1] /\ StrLess(a[2], b[2]))

RECURSIVE SortedPairs(_)
SortedPairs(set) ==
  IF set = {} THEN <<>>
  ELSE LET m == CHOOSE x \in set : \A y \in set : y = x \/ PairLess(x, y)
       IN <<m>> \o SortedPairs(set \ {m})

\* tags_to_html(tags, classname, visible)
tags_to_html(tags, classname, visible) ==
  LET NameOf(tag) == IF visible /\ Truthy(Get(tag, "displayName"))
                     THEN Get(tag, "displayName") ELSE EmptyStr
      urls == UNION {{<<u, NameOf(tags[i])>> : u \in Range(object_urls(tags[i]))}
                     : i \in DOMAIN tags}
      sorted == SortedPairs(urls)
  IN Flatten([i \in DOMAIN sorted |->
       <<"\n<a class=\"", classname, "\" ">> \o
       (IF Truthy(sorted[i][2]) THEN <<>> ELSE <<"aria-hidden=\"true\" ">>) \o
       <<"href=\"">> \o Fmt(sorted[i][1]) \o <<"\">">> \o Fmt(sorted[i][2]) \o <<"</a>">>])

\* _render_attachments(attachments, obj)
render_attachments_html(attachments, o) ==
  Flatten([i \in DOMAIN attachments |->
    LET att == attachments[i]
        name == Or(Get(att, "displayName"), EmptyStr)
        stream == Or(Get(GetFirst(att, "stream", EmptyDict), "url"), EmptyStr)
        image == Or(Get(GetFirst(att, "image", EmptyDict), "url"), EmptyStr)
        type == Get(att, "objectType")
        url == Or(Get(att, "url"), Get(o, "url"))
        open_a_tag == type \notin {S("video"), S("audio")} /\ Truthy(url)
        summary == Get(att, "summary")
    IN <<"\n<p>">> \o
       (CASE type = S("video") -> IF Truthy(stream) THEN vid(stream, image) ELSE <<>>
          [] type = S("audio") -> IF Truthy(stream) THEN aud(stream) ELSE <<>>
          [] OTHER ->
               (IF Truthy(url)
                THEN <<"\n<a class=\"link\" href=\"">> \o Fmt(url) \o <<"\">">> ELSE <<>>) \o
               (IF Truthy(image) THEN <<"\n">> \o img(image, name) ELSE <<>>)) \o
       (IF Truthy(name) /\ type # S("image")
        THEN <<"\n<span class=\"name\">">> \o Fmt(name) \o <<"</span>">> ELSE <<>>) \o
       (IF open_a_tag THEN <<"\n</a>">> ELSE <<>>) \o
       (IF Truthy(summary) /\ summary # name
        THEN <<"\n<span class=\"summary\">">> \o Fmt(summary) \o <<"</span>">> ELSE <<>>) \o
       <<"\n</p>">>])

RECURSIVE DedupeTags(_, _)
\* the tags render_content keeps: a tag whose non-empty id was seen is skipped
DedupeTags(tags, seen_ids) ==
  IF tags = <<>> THEN <<>>
  ELSE LET id == Get(Head(tags), "id")
       IN IF Truthy(id) /\ id \in seen_ids THEN DedupeTags(Tail(tags), seen_ids)
          ELSE <<Head(tags)>> \o DedupeTags(Tail(tags), seen_ids \cup {id})

RECURSIVE SortMentions(_)

\* mutant of SortMentions: the mentions in the order given
SortMentionsAsGiven(ms) ==
  ms

\* mentions.sort(key=lambda t: t['startIndex']): stable, ascending
SortMentions(ms) ==
  IF ms = <<>> THEN <<>>
  ELSE LET i == CHOOSE j \in DOMAIN ms :
                  \A k \in DOMAIN ms :
                    \/ Get(ms[j], "startIndex").n < Get(ms[k], "startIndex").n
                    \/ (Get(ms[j], "startIndex").n = Get(ms[k], "startIndex").n /\ j <= k)
       IN <<ms[i]>> \o SortMentions(SubSeq(ms, 1, i - 1) \o SubSeq(ms, i + 1, Len(ms)))

RECURSIVE SpliceWithoutAdvance(_, _, _)
\* mutant of Splice: last_end is never moved past the mention
SpliceWithoutAdvance(orig, mentions, last_end) ==
  IF mentions = <<>> THEN PySlice(orig, last_end, Len(orig))
  ELSE LET tag == Head(mentions)
           start == Get(tag, "startIndex").n
           end == start + Get(tag, "length").n
       IN PySlice(orig, last_end, start) \o <<"<a href=\"">> \o Fmt(Get(tag, "url")) \o
          <<"\">">> \o PySlice(orig, start, end) \o <<"</a>">> \o
          SpliceWithoutAdvance(orig, Tail(mentions), start)

RECURSIVE Splice(_, _, _)
\* the loop that linkifies the mentions: returns the spliced content
Splice(orig, mentions, last_end) ==
  IF mentions = <<>> THEN PySlice(orig, last_end, Len(orig))
  ELSE LET tag == Head(mentions)
           start == Get(tag, "startIndex").n
           end == start + Get(tag, "length").n
       IN PySlice(orig, last_end, start) \o <<"<a href=\"">> \o Fmt(Get(tag, "url")) \o
          <<"\">">> \o PySlice(orig, start, end) \o <<"</a>">> \o
          Splice(orig, Tail(mentions), end)

\* content.replace('\n', '<br />\n')
ReplaceNewlines(s) ==
  Flatten([i \in DOMAIN s |-> IF s[i] = "\n" THEN <<"<br />", "\n">> ELSE <<s[i]>>])

RECURSIVE render_content(_, _, _, _, _, _)
RECURSIVE object_to_json(_, _, _, _, _)

\* line 890: a tag that is an inline mention
IsMention(t) == Has(t, "startIndex") /\ Has(t, "length") /\ Has(t, "url")

\* lines 895-908: the content with its mentions linkified
LinkifyMentions(content, mentions) ==
  IF mentions # <<>> THEN Splice(content, mentions, 0) ELSE content

\* lines 910-918: the whitespace heuristic
PreserveWhitespace(content, content_is_html, white_space_pre) ==
  IF content # <<>> /\ ~Truthy(content_is_html) /\ HasNewline(Str(content))
  THEN IF white_space_pre
       THEN <<"<div style=\"white-space: pre\">">> \o content \o <<"</div>">>
       ELSE ReplaceNewlines(content)
  ELSE content

\* lines 961-986: the context synthesized for the first target of a like or
\* share, given the conversion of its author and its own rendered content
SynthesizedContext(obj_type, target, author, retweet, author_json, inner) ==
  LET verb == CASE obj_type = S("favorite") -> "Favorites"
                [] obj_type = S("like") -> "Likes"
                [] OTHER -> "Shared"
      verb_lower == CASE obj_type = S("favorite") -> "favorites"
                      [] obj_type = S("like") -> "likes"
                      [] OTHER -> "shared"
  IN IF Has(target, "url") /\ DOMAIN target.d \subseteq {"url", "objectType"}
     THEN Str(<<"<a href=\"">> \o Fmt(Get(target, "url")) \o <<"\">", verb_lower,
                " this.</a>">>)
     ELSE IF ~retweet /\ IsRaise(author_json) THEN author_json
     ELSE IF IsRaise(inner) THEN inner
     ELSE Str((IF retweet
               THEN <<"RT <a href=\"">> \o Fmt(GetD(target, "url", S("#"))) \o
                    <<"\">@">> \o Fmt(Get(author, "username")) \o <<"</a> ">>
               ELSE <<verb, " <a href=\"">> \o Fmt(GetD(target, "url", S("#"))) \o
                    <<"\">">> \o
                    Fmt(GetD(target, "displayName", GetD(target, "title", S("a post")))) \o
                    <<"</a> by ">> \o hcard_to_html(author_json, <<>>)) \o inner.s)

\* lines 992-1014: the pieces joined into the returned content, unless a
\* conversion on the way raised
JoinContent(before, caption, share_atts, has_location, loc_json, tags_html) ==
  IF IsRaise(caption) THEN caption
  ELSE IF has_location /\ IsRaise(loc_json) THEN loc_json
  ELSE Str(before \o caption.s \o share_atts \o
           (IF has_location
            THEN <<"\n<p>">> \o hcard_to_html(loc_json, <<S("p-location")>>) \o <<"</p>">>
            ELSE <<>>) \o
           tags_html)

\* lines 876-1014, given the tags the de-duplication of lines 881-888 keeps
RenderKept(o, include_location, synthesize_content, render_attachments, render_image, white_space_pre, kept) ==
  LET obj_type == object_type(o)
      tags == SeqFilterIn(kept, {t \in Range(kept) : ~IsMention(t)})
      TagsOf(types) == SeqFilterIn(tags, {t \in Range(tags) : object_type(t) \in types})
      image_urls == GetUrls(o, "image")
      images == IF render_image
                THEN render_attachments_html(
                       [i \in DOMAIN image_urls |->
                         FromPairs(<<<<"objectType", S("image")>>,
                                     <<"image", FromPairs(<<<<"url", image_urls[i]>>>>)>>>>)], o)
                ELSE <<>>
      rendered_urls == IF render_image THEN Range(image_urls) ELSE {}
      targetUrl == Get(o, "targetUrl")
      bookmark == IF obj_type = S("bookmark") /\ Truthy(targetUrl)
                  THEN <<"\nBookmark: ", "<a class=\"u-bookmark-of\" href=\"">> \o
                       Fmt(targetUrl) \o <<"\">">> \o Fmt(targetUrl) \o <<"</a>">>
                  ELSE <<>>
      allatts == GetD(o, "attachments", EmptyList).l
      atts == SeqFilterIn(allatts,
                {a \in Range(allatts) :
                   /\ Get(a, "objectType") \notin {S("note"), S("article")}
                   /\ GetUrl(a, "image") \notin rendered_urls})
      attachments == IF render_attachments
                     THEN render_attachments_html(atts \o TagsOf({S("article")}), o)
                     ELSE <<>>
      \* share/like contexts, when the activity has no content of its own
      targets == GetList(o, "object")
      synthesizes == /\ synthesize_content
                     /\ obj_type \in {S("favorite"), S("like"), S("share")}
                     /\ Has(o, "object")
                     /\ ~Has(o, "content")
                     /\ targets # <<>>
      author == GetD(targets[1], "author", GetD(targets[1], "actor", EmptyDict))
      caption ==
        IF ~synthesizes THEN Str(<<>>)
        ELSE SynthesizedContext(obj_type, targets[1], author,
               obj_type = S("share") /\ Has(o, "url") /\ IsTwitterUrl(Get(o, "url")),
               object_to_json(Del(author, "image"), TRUE, S("h-entry"), S("person"), TRUE),
               render_content(targets[1], include_location, synthesize_content, FALSE,
                              FALSE, white_space_pre))
      share_all == Flatten([i \in DOMAIN targets |->
                             GetD(targets[i], "attachments", EmptyList).l])
      share_atts ==
        IF render_attachments /\ Get(o, "verb") = S("share")
        THEN render_attachments_html(
               SeqFilterIn(share_all,
                 {a \in Range(share_all) :
                    Get(a, "objectType") \notin {S("note"), S("article")}}), o)
        ELSE <<>>
      handled == {S("like"), S("share"), S("react"), S("person"), S("hashtag"), S("mention")}
                 \cup (IF render_attachments THEN {S("article")} ELSE {})
  IN JoinContent(
       PreserveWhitespace(
         LinkifyMentions(Or(Get(o, "content"), EmptyStr).s,
                         SortMentions(SeqFilterIn(kept, {t \in Range(kept) : IsMention(t)}))),
         Get(o, "content_is_html"), white_space_pre) \o
       images \o bookmark \o attachments,
       caption, share_atts,
       include_location /\ Truthy(Get(o, "location")),
       object_to_json(Get(o, "location"), TRUE, S("h-entry"), S("place"), TRUE),
       tags_to_html(TagsOf({S("hashtag")}), "p-category", TRUE) \o
       tags_to_html(TagsOf({S("mention")}), "u-mention", FALSE) \o
       tags_to_html(SeqFilterIn(tags, {t \in Range(tags) : object_type(t) \notin handled}),
                    "tag", TRUE))

\* render_content(obj, include_location, synthesize_content,
\*                render_attachments, render_image, white_space_pre)
render_content(o, include_location, synthesize_content, render_attachments, render_image, white_space_pre) ==
  RenderKept(o, include_location, synthesize_content, render_attachments, render_image,
             white_space_pre, DedupeTags(GetD(o, "tags", EmptyList).l, {}))

\* in_reply_tos as object_to_json first reads it: obj['inReplyTo'], else
\* obj['context']['inReplyTo'], else a new empty list
InReplyTosRead(o) ==
  LET own == Or(Get(o, "inReplyTo"), EmptyList)
      context == Get(o, "context")
  IN IF Truthy(own) THEN own
     ELSE IF Truthy(context) /\ IsDict(context)
     THEN Or(Get(context, "inReplyTo"), EmptyList)
     ELSE own

\* the objects in_reply_tos.extend() appends: obj['object'] of an RSVP or react
InReplyTosExtension(o, obj_type) ==
  LET objs == Get(o, "object")
  IN IF obj_type \in {S("rsvp-yes"), S("rsvp-no"), S("rsvp-maybe"), S("react")}
        /\ Truthy(objs)
     THEN (IF IsList(objs) THEN objs.l ELSE <<objs>>)
     ELSE <<>>

\* in_reply_tos after the extend() of lines 203-206
InReplyTos(o, obj_type) ==
  List(InReplyTosRead(o).l \o InReplyTosExtension(o, obj_type))

\* The argument of object_to_json as the call leaves it.  extend() appends to
\* the list object in_reply_tos names: the caller's obj['inReplyTo'] when that
\* is non-empty, else the caller's obj['context']['inReplyTo'] when that is
\* non-empty, else a list local to the call.  (The nested objects of the
\* model's inputs carry no object of their own next to an inReplyTo, so the
\* recursive calls leave them as they are.)
ObjAfterObjectToJson(o, default_object_type) ==
  IF ~Truthy(o) \/ ~IsDict(o) THEN o
  ELSE LET t0 == Or(object_type(o), default_object_type)
           obj_type == IF t0 = S("post")
                       THEN Or(object_type(GetD(o, "object", EmptyDict)), default_object_type)
                       ELSE t0
           ext == InReplyTosExtension(o, obj_type)
           context == Get(o, "context")
       IN IF ext = <<>> THEN o
          ELSE IF Truthy(Get(o, "inReplyTo"))
          THEN Put(o, "inReplyTo", List(Get(o, "inReplyTo").l \o ext))
          ELSE IF Truthy(context) /\ IsDict(context) /\ Truthy(Get(context, "inReplyTo"))
          THEN Put(o, "context",
                   Put(context, "inReplyTo", List(Get(context, "inReplyTo").l \o ext)))
          ELSE o

RECURSIVE SelectStream(_, _)
\* lines 216-220: the value the loop variable stream is left with
SelectStream(candidates, stream) ==
  IF candidates = <<>> THEN stream
  ELSE LET streams == GetList(Head(candidates), "stream")
           truthy == SeqFilterIn(streams, {x \in Range(streams) : Truthy(x)})
       IN SelectStream(Tail(candidates),
                       IF streams = <<>> THEN stream
                       ELSE IF truthy # <<>> THEN truthy[1]
                       ELSE streams[Len(streams)])

\* line 227: logging is the module, and calling it raises TypeError
LogIgnoredDuration == Raise("TypeError")

\* lines 234-236: the 'type' of the item
ItemType(obj_type, entry_class) ==
  IF IsStr(entry_class)
  THEN Or(AS_TO_MF2_TYPE(obj_type), List(<<entry_class>>))
  ELSE List(entry_class.l)

\* mutant of ContentProperty: the plain text stored without its list
ContentPropertyBare(text, html) ==
  IF HasLt(html)
  THEN List(<<FromPairs(<<<<"value", text>>, <<"html", html>>>>)>>)
  ELSE text

\* mutant of ContentProperty: the plain text stored as a {value: ...} mapping
ContentPropertyAsValue(text, html) ==
  IF HasLt(html)
  THEN List(<<FromPairs(<<<<"value", text>>, <<"html", html>>>>)>>)
  ELSE List(<<FromPairs(<<<<"value", text>>>>)>>)

\* lines 275-284: the content property
ContentProperty(text, html) ==
  IF HasLt(html)
  THEN List(<<FromPairs(<<<<"value", text>>, <<"html", html>>>>)>>)
  ELSE List(<<text>>)

RECURSIVE Photos(_, _)
\* lines 286-294: photos, including alt text
Photos(images, seen) ==
  IF images = <<>> THEN <<>>
  ELSE LET image == Head(images)
           urls == SeqFilterIn(GetUrls(image, "image"),
                     {u \in Range(GetUrls(image, "image")) : Truthy(u) /\ u \notin seen})
           name == Get(GetFirst(image, "image", EmptyDict), "displayName")
       IN [i \in DOMAIN urls |->
            IF Truthy(name) THEN FromPairs(<<<<"value", urls[i]>>, <<"alt", name>>>>)
            ELSE urls[i]] \o Photos(Tail(images), seen \cup Range(urls))

\* mutant of UidProperty: the uid taken from numeric_id
UidPropertyFromNumericId(o) == List(<<Or(Get(o, "numeric_id"), EmptyStr)>>)

\* line 238: the uid property
UidProperty(o) == List(<<Or(Get(o, "id"), EmptyStr)>>)

\* obj_type[len('rsvp-'):]
RsvpSuffix(obj_type) ==
  CASE obj_type = S("rsvp-yes") -> S("yes")
    [] obj_type = S("rsvp-no") -> S("no")
    [] obj_type = S("rsvp-maybe") -> S("maybe")

\* lines 209-212: attachments[type], given the attachments and tags of primary
AttachmentsOf(elems, type) ==
  SeqFilterIn(elems, {e \in Range(elems) : Get(e, "objectType") = type})

\* lines 222-366: the item object_to_json builds from the object and from the
\* conversions of its parts (the recursive calls are made by ConvertParts)
AssembleItem(o, primary, obj_type, trim_nulls, entry_class, elems, stream, in_reply_tos, html, author_json, location_json, comments, children, category, invitee, targets, favorites, likes, follows, shares) ==
  LET name == GetD(primary, "displayName", Get(primary, "title"))
      is_rsvp == obj_type \in {S("rsvp-yes"), S("rsvp-no"), S("rsvp-maybe")}
      duration0 == Get(stream, "duration")
      duration == IF duration0 # Null /\ IsInt(duration0) THEN PyStr(duration0) ELSE Null
      size == Get(stream, "size")
      own_urls == object_urls(o)
      text == Unescape(Or(Get(primary, "content"), EmptyStr))
      position == ISO_6709_RE(Or(Get(primary, "position"), EmptyStr))
      lat == IF Truthy(position[1]) THEN position[1] ELSE Get(primary, "latitude")
      long == IF Truthy(position[2]) THEN position[2] ELSE Get(primary, "longitude")
      properties == FromPairs(<<
        <<"uid", UidProperty(o)>>,
        <<"numeric-id", List(<<Or(Get(o, "numeric_id"), EmptyStr)>>)>>,
        <<"name", List(<<name>>)>>,
        <<"nickname", List(<<Or(Get(o, "username"), EmptyStr)>>)>>,
        <<"summary", List(<<Get(primary, "summary")>>)>>,
        <<"url", List((IF own_urls # <<>> THEN own_urls ELSE object_urls(primary)) \o
                      GetD(o, "upstreamDuplicates", EmptyList).l)>>,
        <<"video", List(DedupeUrls(GetUrlsInner(AttachmentsOf(elems, S("video")), "stream") \o
                                   GetUrls(primary, "stream")))>>,
        <<"audio", List(GetUrlsInner(AttachmentsOf(elems, S("audio")), "stream"))>>,
        <<"duration", List(<<duration>>)>>,
        <<"size", List(IF Truthy(size) THEN <<PyStr(size)>> ELSE <<>>)>>,
        <<"published", List(<<GetD(o, "published", GetD(primary, "published", EmptyStr))>>)>>,
        <<"updated", List(<<GetD(o, "updated", GetD(primary, "updated", EmptyStr))>>)>>,
        <<"in-reply-to",
          TrimNulls(List([i \in DOMAIN in_reply_tos |-> Get(in_reply_tos[i], "url")]))>>,
        <<"author", List(<<author_json>>)>>,
        <<"location", List(<<location_json>>)>>,
        <<"comment", List(comments)>>,
        <<"start", List(<<Get(primary, "startTime")>>)>>,
        <<"end", List(<<Get(primary, "endTime")>>)>>,
        <<"content", IF IsRaise(html) THEN Null ELSE ContentProperty(text, html)>>,
        <<"photo", List(Photos(AttachmentsOf(elems, S("image")) \o <<primary>>, {}))>>,
        <<"tag-of", IF obj_type = S("tag") THEN List(GetUrls(o, "target")) ELSE Absent>>,
        <<"category", List(category)>>,
        <<"rsvp", IF is_rsvp THEN List(<<RsvpSuffix(obj_type)>>) ELSE Absent>>,
        <<"invitee", IF ~is_rsvp /\ obj_type = S("invite")
                     THEN List(<<invitee>>) ELSE Absent>>,
        <<"like-of", IF obj_type \in {S("favorite"), S("like")}
                     THEN List(targets) ELSE Absent>>,
        <<"like", IF obj_type = S("like") THEN List(favorites) ELSE List(likes)>>,
        <<"follow-of", IF obj_type = S("follow") THEN List(targets) ELSE Absent>>,
        <<"follow", IF obj_type = S("follow") THEN Absent ELSE List(follows)>>,
        <<"repost-of", IF obj_type = S("share") THEN List(targets) ELSE Absent>>,
        <<"repost", IF obj_type = S("share") THEN Absent ELSE List(shares)>>,
        <<"bookmark-of", IF obj_type = S("bookmark")
                         THEN List(<<Get(primary, "targetUrl")>>) ELSE Absent>>,
        <<"latitude", IF Truthy(lat) THEN List(<<PyStr(lat)>>) ELSE Absent>>,
        <<"longitude", IF Truthy(long) THEN List(<<PyStr(long)>>) ELSE Absent>> >>)
      ret == FromPairs(<<
        <<"type", ItemType(obj_type, entry_class)>>,
        <<"properties", properties>>,
        <<"children", List(children)>> >>)
      \* the calls made on the way, any of which may have raised
      nested == <<author_json, location_json, html>> \o comments \o children \o category \o
                (IF ~is_rsvp /\ obj_type = S("invite") THEN <<invitee>> ELSE <<>>) \o
                (IF obj_type \in {S("favorite"), S("like"), S("follow"), S("share")}
                 THEN targets ELSE <<>>) \o
                favorites \o likes \o follows \o shares
      raised == SeqFilterIn(nested, {x \in Range(nested) : IsRaise(x)})
  IN IF duration0 # Null /\ ~IsInt(duration0) THEN LogIgnoredDuration
     ELSE IF raised # <<>> THEN raised[1]
     ELSE IF trim_nulls THEN TrimNulls(ret) ELSE ret

\* lines 192-343: the recursive conversions object_to_json makes of the
\* object's parts, handed to AssembleItem
ConvertParts(o, primary, obj_type, trim_nulls, entry_class, synthesize_content) ==
  LET elems == GetList(primary, "attachments") \o GetList(primary, "tags")
      replies == GetD(GetD(o, "replies", EmptyDict), "items", EmptyList).l
      notes == SeqFilterIn(AttachmentsOf(elems, S("note")),
                 {a \in Range(elems) : ~Has(a, "startIndex")})
      articles == SeqFilterIn(AttachmentsOf(elems, S("article")),
                    {a \in Range(elems) : ~Has(a, "startIndex")})
      tags0 == Or(GetD(o, "tags", EmptyList),
                  GetD(GetFirst(o, "object", EmptyDict), "tags", EmptyList)).l
      tags == IF tags0 = <<>> /\ obj_type = S("tag") THEN GetList(o, "object") ELSE tags0
      objs == GetList(o, "object")
      Received(type) ==
        LET ts == SeqFilterIn(tags, {t \in Range(tags) : object_type(t) = type})
        IN [i \in DOMAIN ts |-> object_to_json(ts[i], FALSE, S("h-cite"), Null, TRUE)]
  IN AssembleItem(o, primary, obj_type, trim_nulls, entry_class, elems,
       SelectStream(<<o>> \o AttachmentsOf(elems, S("video")) \o
                    AttachmentsOf(elems, S("audio")), EmptyDict),
       InReplyTos(o, obj_type).l,
       render_content(primary, FALSE, synthesize_content, FALSE, FALSE, TRUE),
       object_to_json(GetD(o, "author", GetD(o, "actor", EmptyDict)), FALSE,
                      S("h-entry"), S("person"), TRUE),
       object_to_json(GetD(primary, "location", EmptyDict), FALSE,
                      S("h-entry"), S("place"), TRUE),
       [i \in DOMAIN replies |->
         object_to_json(replies[i], FALSE, S("h-cite"), Null, TRUE)],
       [i \in DOMAIN notes |->
         object_to_json(notes[i], FALSE, List(<<S("u-quotation-of"), S("h-cite")>>),
                        Null, TRUE)] \o
       [i \in DOMAIN articles |->
         object_to_json(articles[i], FALSE, List(<<S("h-cite")>>), Null, TRUE)],
       Flatten([i \in DOMAIN tags |->
         IF Get(tags[i], "objectType") = S("person")
         THEN <<object_to_json(tags[i], TRUE, S("u-category h-card"), Null, TRUE)>>
         ELSE IF (Get(tags[i], "objectType") = S("hashtag") \/ obj_type = S("tag"))
                 /\ Truthy(Get(tags[i], "displayName"))
         THEN <<Get(tags[i], "displayName")>>
         ELSE <<>>]),
       object_to_json(Get(o, "object"), FALSE, S("h-entry"), S("person"), TRUE),
       [i \in DOMAIN objs |->
         IF Has(objs[i], "url") /\ DOMAIN objs[i].d \subseteq {"url", "objectType"}
         THEN Get(objs[i], "url")
         ELSE object_to_json(objs[i], FALSE, S("h-cite"), Null, TRUE)],
       Received(S("favorite")), Received(S("like")), Received(S("follow")),
       Received(S("share")))

\* mutant of object_to_json: without the isinstance test of line 179, a
\* non-mapping value reaches obj.get
object_to_json_without_isinstance(o, trim_nulls, entry_class, default_object_type, synthesize_content) ==
  IF ~Truthy(o) THEN EmptyDict
  ELSE IF ~IsDict(o) THEN Raise("AttributeError")
  ELSE IF Or(object_type(o), default_object_type) = S("post")
  THEN ConvertParts(o, GetD(o, "object", EmptyDict),
                    Or(object_type(GetD(o, "object", EmptyDict)), default_object_type),
                    trim_nulls, entry_class, synthesize_content)
  ELSE ConvertParts(o, o, Or(object_type(o), default_object_type),
                    trim_nulls, entry_class, synthesize_content)

\* object_to_json(obj, trim_nulls, entry_class, default_object_type,
\*                synthesize_content)
object_to_json(o, trim_nulls, entry_class, default_object_type, synthesize_content) ==
  IF ~Truthy(o) \/ ~IsDict(o) THEN EmptyDict
  ELSE IF Or(object_type(o), default_object_type) = S("post")
  THEN ConvertParts(o, GetD(o, "object", EmptyDict),
                    Or(object_type(GetD(o, "object", EmptyDict)), default_object_type),
                    trim_nulls, entry_class, synthesize_content)
  ELSE ConvertParts(o, o, Or(object_type(o), default_object_type),
                    trim_nulls, entry_class, synthesize_content)

----------------------------------------------------------------------------
(* microformats2.py: json_to_object and its collaborators *)

\* MF2_TO_AS_TYPE_VERB.get(mf2_type, (None, None))
MF2_TO_AS_TYPE_VERB(mf2_type) ==
  CASE mf2_type = "article" -> <<S("article"), Null>>
    [] mf2_type = "bookmark" -> <<S("activity"), S("post")>>
    [] mf2_type = "event" -> <<S("event"), Null>>
    [] mf2_type = "follow" -> <<S("activity"), S("follow")>>
    [] mf2_type = "invite" -> <<S("activity"), S("invite")>>
    [] mf2_type = "like" -> <<S("activity"), S("like")>>
    [] mf2_type = "location" -> <<S("place"), Null>>
    [] mf2_type = "note" -> <<S("note"), Null>>
    [] mf2_type = "person" -> <<S("person"), Null>>
    [] mf2_type = "reply" -> <<S("comment"), Null>>
    [] mf2_type = "repost" -> <<S("activity"), S("share")>>
    [] mf2_type = "rsvp" -> <<S("activity"), Null>>
    [] mf2_type = "tag" -> <<S("activity"), S("tag")>>
    [] OTHER -> <<Null, Null>>

\* the properties mf2util.post_type_discovery tests, in its order, with the
\* type each implies
ImpliedTypes ==
  << <<"rsvp", "rsvp">>, <<"invitee", "invite">>, <<"repost-of", "repost">>,
     <<"like-of", "like">>, <<"follow-of", "follow">>, <<"in-reply-to", "reply">>,
     <<"bookmark-of", "bookmark">>, <<"checkin", "checkin">>, <<"video", "video">>,
     <<"audio", "audio">>, <<"photo", "photo">> >>

\* mf2util.post_type_discovery(hentry)
post_type_discovery(hentry) ==
  LET props == GetD(hentry, "properties", EmptyDict)
      types == Range(GetD(hentry, "type", EmptyList).l)
      implied == {i \in DOMAIN ImpliedTypes : Has(props, ImpliedTypes[i][1])}
      name == get_text(GetFirst(props, "name", EmptyStr))
      content == Or(get_text(GetFirst(props, "content", EmptyStr)),
                    get_text(GetFirst(props, "summary", EmptyStr)))
  IN IF S("h-card") \in types THEN "person"
     ELSE IF S("h-event") \in types THEN "event"
     ELSE IF implied # {}
     THEN ImpliedTypes[CHOOSE i \in implied : \A j \in implied : i <= j][2]
     ELSE IF Truthy(content) /\ Truthy(name) /\ name # content THEN "article"
     ELSE "note"

\* mf2util.interpret({'items': [mf2]}, None).get('location'): the coordinates
\* of an entry's first location, or None
InterpretLocation(item) ==
  LET types == Range(GetD(item, "type", EmptyList).l)
      locs == GetD(GetD(item, "properties", EmptyDict), "location", EmptyList).l
      lp == IF IsDict(locs[1]) THEN GetD(locs[1], "properties", EmptyDict) ELSE EmptyDict
  IN IF types \cap {S("h-entry"), S("h-event"), S("h-cite")} = {} \/ locs = <<>> THEN Null
     ELSE FromPairs(<< <<"latitude", GetFirst(lp, "latitude", Null)>>,
                       <<"longitude", GetFirst(lp, "longitude", Null)>> >>)

\* int(s) for the strings is_int accepts
IntOf(v) ==
  CASE v.t = "int" -> v
    [] v = S("60") -> Num(60)
    [] v = S("123") -> Num(123)

\* float(s): the value, or a ValueError
FloatOf(v) ==
  CASE v = S("+10.5") -> Float("10.5")
    [] v = S("-20.5") -> Float("-20.5")
    [] v.t = "float" -> v
    [] OTHER -> Raise("ValueError")

\* int(util.parse_iso8601_duration(s).total_seconds()), or None
parse_iso8601_duration(v) ==
  CASE v = S("PT2M") -> Num(120)
    [] OTHER -> Null

\* humanfriendly.parse_size(s), or None for an InvalidSize
parse_size(v) ==
  CASE v = S("7MB") -> Num(7000000)
    [] OTHER -> Null

\* size_to_bytes(size)
size_to_bytes(size) ==
  IF IsInt(size) THEN IntOf(size)
  ELSE IF ~Truthy(size) THEN Null
  ELSE parse_size(size)

\* urllib.parse.urlparse(url).netloc is non-empty
is_absolute(url) == url \notin {S("/rel/1"), S("rel")}

\* the model's URLs that begin like a GitHub URL, cut into the pieces the
\* pattern of line 440 tells apart; any other URL has no pieces
UrlPieces(url) ==
  LET github == <<"https", "://", "github", ".", "com", "/", "o", "/", "r">>
  IN CASE url = S("https://github.com/o/r") -> github
       [] url = S("https://github.com/o/r/") -> github \o <<"/">>
       [] url = S("https://github.com/o/r/issues") -> github \o <<"/issues">>
       [] url = S("https://github.com/o/r/issues/") -> github \o <<"/issues", "/">>
       [] url = S("https://github.com/o/r/issues/1") -> github \o <<"/issues", "/", "1">>
       [] url = S("http://github.com/o/r") -> <<"http">> \o Tail(github)
       [] url = S("https://github.com/o") -> SubSeq(github, 1, 7)
       [] url = S("https://githubxcom/o/r") ->
            <<"https", "://", "github", "x", "com", "/", "o", "/", "r">>
       [] OTHER -> <<>>

\* the pieces that are a single character other than a newline: what '.'
\* matches
OneChar == {".", "x", "/"}

\* the pieces [^/]+ matches
NoSlash == {"o", "r", "1", "github", "com", ".", "x"}

\* re.match(r'^https?://github.com/[^/]+/[^/]+(/issues)?/?$', url)
IsGithubRepoUrl(url) ==
  LET pieces == UrlPieces(url)
  IN /\ Len(pieces) >= 9
     /\ pieces[1] \in {"http", "https"}
     /\ pieces[2] = "://"
     /\ pieces[3] = "github"
     /\ pieces[4] \in OneChar
     /\ pieces[5] = "com"
     /\ pieces[6] = "/"
     /\ pieces[7] \in NoSlash
     /\ pieces[8] = "/"
     /\ pieces[9] \in NoSlash
     /\ SubSeq(pieces, 10, Len(pieces)) \in
          {<<>>, <<"/issues">>, <<"/">>, <<"/issues", "/">>}

RECURSIVE Images(_, _)
\* lines 515-527: images, including alt text
Images(photos, seen) ==
  IF photos = <<>> THEN <<>>
  ELSE LET photo == IF IsDict(Head(photos))
                    THEN Or(Get(Head(photos), "properties"), Head(photos))
                    ELSE Head(photos)
           url == IF IsDict(photo)
                  THEN Or(GetFirst(photo, "value", Null), GetFirst(photo, "url", Null))
                  ELSE photo
           alt == IF IsDict(photo) THEN GetFirst(photo, "alt", Null) ELSE Null
           ok == Truthy(url) /\ url \notin seen /\ is_absolute(url)
       IN (IF ok THEN <<FromPairs(<< <<"url", url>>, <<"displayName", alt>> >>)>> ELSE <<>>)
          \o Images(Tail(photos), IF ok THEN seen \cup {url} ELSE seen)

\* mutant of RsvpVerb: only a yes overrides the verb
RsvpVerbYesOnly(rsvp) ==
  CASE rsvp = S("yes") -> S("rsvp-yes")
    [] OTHER -> Null

\* 'rsvp-%s' % rsvp
RsvpVerb(rsvp) ==
  CASE rsvp = S("yes") -> S("rsvp-yes")
    [] rsvp = S("no") -> S("rsvp-no")
    [] rsvp = S("maybe") -> S("rsvp-maybe")
    [] OTHER -> Str(<<"rsvp-">> \o Fmt(rsvp))

\* lines 413-430: the mf2 type the item is converted as
Mf2TypeOf(item) ==
  LET props == GetD(item, "properties", EmptyDict)
      mf2_types == Range(Or(Get(item, "type"), EmptyList).l)
  IN IF S("h-geo") \in mf2_types \/ S("p-location") \in mf2_types THEN "location"
     ELSE IF Has(props, "tag-of") THEN "tag"
     ELSE IF Has(props, "follow-of") THEN "follow"
     ELSE IF Has(props, "bookmark-of") THEN "bookmark"
     ELSE post_type_discovery(Put(item, "properties", Del(props, "photo")))

\* mutant of ActivityObjects: every target is kept, repeated or not
ActivityObjectsWithDuplicates(targets, bookmarked) ==
  targets \o
  [i \in DOMAIN bookmarked |->
    FromPairs(<< <<"objectType", S("bookmark")>>, <<"targetUrl", bookmarked[i]>> >>)]

\* lines 547-557: the activity's targets without repeats, then one bookmark
\* object per bookmark-of URL
ActivityObjects(targets, bookmarked) ==
  Uniquify(targets) \o
  [i \in DOMAIN bookmarked |->
    FromPairs(<< <<"objectType", S("bookmark")>>, <<"targetUrl", bookmarked[i]>> >>)]

\* the nested conversions that raised, in order
FirstRaised(nested) == SeqFilterIn(nested, {x \in Range(nested) : IsRaise(x)})

\* lines 564-568: a tag activity that already has an object is not supported
TagOfWithObject == Raise("NotImplementedError")

\* lines 546-577: the object or activity built from the converted parts,
\* unless a nested conversion raised
BuildObject(prop, as_type, as_verb, base, object, author, tags, in_reply_tos, raised) ==
  IF raised # <<>> THEN raised[1]
  ELSE IF as_type = S("activity")
  THEN IF as_verb = S("tag")
       THEN IF Truthy(object) THEN TagOfWithObject
            ELSE postprocess_object(
                   Put(Put(Del(Put(Put(base, "object", object), "actor", author), "tags"),
                           "target", FromPairs(<< <<"url", Get(prop, "tag-of")>> >>)),
                       "object", List(tags)))
       ELSE postprocess_object(Put(Put(base, "object", object), "actor", author))
  ELSE postprocess_object(
         Put(Put(base, "inReplyTo",
                 List([i \in DOMAIN in_reply_tos |->
                        FromPairs(<< <<"url", in_reply_tos[i]>> >>)])),
             "author", author))

RECURSIVE json_to_object(_, _, _)
\* json_to_object(mf2, actor, fetch_mf2); found is what the authorship
\* algorithm (mf2util.find_author) returns for this item
json_to_object(item, actor, found) ==
  IF ~Truthy(item) \/ ~IsDict(item) THEN EmptyDict
  ELSE
  LET props == GetD(item, "properties", EmptyDict)
      prop == first_props(props)
      rsvp == Get(prop, "rsvp")
      mf2_author == Get(prop, "author")
      own_author == Truthy(mf2_author) /\ IsDict(mf2_author)
      author0 ==
        IF own_author THEN json_to_object(mf2_author, Null, Null)
        ELSE IF Truthy(found)
        THEN FromPairs(<< <<"objectType", S("person")>>,
                          <<"url", Get(found, "url")>>,
                          <<"displayName", Get(found, "name")>>,
                          <<"image", List(<<FromPairs(<< <<"url", Get(found, "photo")>> >>)>>)>> >>)
        ELSE found
      author == IF IsRaise(author0) \/ Truthy(author0) THEN author0 ELSE actor
      mf2_type == Mf2TypeOf(item)
      in_reply_tos == get_string_urls(GetD(props, "in-reply-to", EmptyList).l)
      as_type == IF \E i \in DOMAIN in_reply_tos : IsGithubRepoUrl(in_reply_tos[i])
                 THEN S("issue") ELSE MF2_TO_AS_TYPE_VERB(mf2_type)[1]
      as_verb == IF Truthy(rsvp) THEN RsvpVerb(rsvp) ELSE MF2_TO_AS_TYPE_VERB(mf2_type)[2]
      urls == IF Truthy(Get(props, "url")) THEN get_string_urls(Get(props, "url").l)
              ELSE <<>>
      quotes0 == GetD(item, "children", EmptyList).l \o GetD(props, "quotation-of", EmptyList).l
      quotes == SeqFilterIn(quotes0,
                  {q \in Range(quotes0) :
                     IsDict(q) /\ S("h-cite") \in Range(GetD(q, "type", EmptyList).l)})
      quoted == [i \in DOMAIN quotes |-> json_to_object(quotes[i], Null, Null)]
      duration0 == Or(Get(prop, "duration"), Get(prop, "length"))
      duration == IF ~Truthy(duration0) THEN duration0
                  ELSE IF IsInt(duration0) THEN IntOf(duration0)
                  ELSE parse_iso8601_duration(duration0)
      bytes == size_to_bytes(Get(prop, "size"))
      Atts(type) ==
        LET us == get_string_urls(GetD(props, type, EmptyList).l)
        IN [i \in DOMAIN us |->
             FromPairs(<< <<"objectType", S(type)>>,
                          <<"stream", FromPairs(<< <<"url", us[i]>>,
                                                   <<"duration", duration>>,
                                                   <<"size", bytes>> >>)>> >>)]
      stream == IF Atts("video") # <<>> THEN Get(Atts("video")[1], "stream")
                ELSE IF Atts("audio") # <<>> THEN Get(Atts("audio")[1], "stream")
                ELSE Null
      attachments == quoted \o Atts("audio") \o Atts("video")
      location0 == json_to_object(Get(prop, "location"), Null, Null)
      loc == InterpretLocation(item)
      lat == Get(loc, "latitude")
      lng == Get(loc, "longitude")
      location ==
        IF IsRaise(location0) \/ ~Truthy(loc) THEN location0
        ELSE LET placed == Put(location0, "objectType", S("place"))
             IN IF Truthy(lat) /\ Truthy(lng) /\ ~IsRaise(FloatOf(lat)) /\ ~IsRaise(FloatOf(lng))
                THEN Put(Put(placed, "latitude", FloatOf(lat)), "longitude", FloatOf(lng))
                ELSE placed
      comments0 == GetD(props, "comment", EmptyList).l
      comments == [i \in DOMAIN comments0 |-> json_to_object(comments0[i], Null, Null)]
      cats == GetD(props, "category", EmptyList).l
      tags == [i \in DOMAIN cats |->
                IF IsStr(cats[i])
                THEN FromPairs(<< <<"objectType", S("hashtag")>>, <<"displayName", cats[i]>> >>)
                ELSE json_to_object(cats[i], Null, Null)]
      base == FromPairs(<<
        <<"id", Get(prop, "uid")>>,
        <<"objectType", as_type>>,
        <<"verb", as_verb>>,
        <<"published", GetD(prop, "published", EmptyStr)>>,
        <<"updated", GetD(prop, "updated", EmptyStr)>>,
        <<"startTime", Get(prop, "start")>>,
        <<"endTime", Get(prop, "end")>>,
        <<"displayName", get_text(Get(prop, "name"))>>,
        <<"username", Get(prop, "nickname")>>,
        <<"summary", get_text(Get(prop, "summary"))>>,
        <<"content", get_html(Get(prop, "content"))>>,
        <<"url", IF urls # <<>> THEN urls[1] ELSE Null>>,
        <<"urls", IF Len(urls) > 1
                  THEN List([i \in DOMAIN urls |-> FromPairs(<< <<"value", urls[i]>> >>)])
                  ELSE Null>>,
        <<"stream", List(<<stream>>)>>,
        <<"location", location>>,
        <<"replies", FromPairs(<< <<"items", List(comments)>> >>)>>,
        <<"tags", List(tags)>>,
        <<"attachments", List(attachments)>>,
        <<"image", List(Images(GetD(props, "photo", EmptyList).l \o
                               GetD(props, "featured", EmptyList).l, {}))>> >>)
      fields == <<"follow-of", "like", "like-of", "repost", "repost-of", "in-reply-to",
                  "invitee">>
      targets0 == Flatten([i \in DOMAIN fields |-> GetD(props, fields[i], EmptyList).l])
      targets == [i \in DOMAIN targets0 |->
                   IF IsDict(targets0[i]) THEN json_to_object(targets0[i], Null, Null)
                   ELSE FromPairs(<< <<"url", targets0[i]>> >>)]
      bookmarked == get_string_urls(GetD(props, "bookmark-of", EmptyList).l)
      objects == ActivityObjects(targets, bookmarked)
      nested == <<author0, location0>> \o quoted \o comments \o
                SeqFilterIn(tags, {x \in Range(tags) : IsRaise(x)}) \o
                (IF as_type = S("activity")
                 THEN SeqFilterIn(targets, {x \in Range(targets) : IsRaise(x)}) ELSE <<>>)
  IN BuildObject(prop, as_type, as_verb, base,
                 IF Len(objects) = 1 THEN objects[1] ELSE List(objects),
                 author, tags, in_reply_tos, FirstRaised(nested))

----------------------------------------------------------------------------
(* microformats2.py: html_to_activities *)

RECURSIVE ConvertItems(_, _, _)

\* lines 601-604: one pass of the loop, given the conversion of the item; a
\* conversion that raises ends the loop and the call
ConvertItem(items, actor, activities, o) ==
  IF IsRaise(o) THEN o
  ELSE ConvertItems(Tail(items), actor,
         Append(activities,
                FromPairs(<< <<"object", Put(o, "content_is_html", S("True"))>> >>)))

\* lines 599-604: the loop over the page's items
ConvertItems(items, actor, activities) ==
  IF items = <<>> THEN List(activities)
  ELSE IF Range(GetD(Head(items), "type", EmptyList).l) \cap
            {S("h-entry"), S("h-event"), S("h-cite")} = {}
  THEN ConvertItems(Tail(items), actor, activities)
  ELSE ConvertItem(items, actor, activities, json_to_object(Head(items), actor, Null))

\* html_to_activities(html, url, actor), given the items util.parse_mf2 finds
\* in the page
html_to_activities(parsed_items, actor) ==
  LET feeds == SeqFilterIn(parsed_items,
                 {i \in Range(parsed_items) :
                    S("h-feed") \in Range(GetD(i, "type", EmptyList).l)})
      items == IF feeds # <<>> THEN GetD(feeds[1], "children", EmptyList).l
               ELSE parsed_items
  IN ConvertItems(items, actor, <<>>)

----------------------------------------------------------------------------
(* microformats2.py: json_to_html *)

RECURSIVE SortedStrs(_)
\* sorted(strs)
SortedStrs(strs) ==
  IF strs = <<>> THEN <<>>
  ELSE LET i == CHOOSE j \in DOMAIN strs :
                  \A k \in DOMAIN strs : ~StrLess(strs[k], strs[j]) \/ strs[k] = strs[j]
       IN <<strs[i]>> \o SortedStrs(SubSeq(strs, 1, i - 1) \o SubSeq(strs, i + 1, Len(strs)))

\* humanfriendly.format_size(bytes); a TypeError when bytes is None
format_size(bytes) ==
  CASE bytes = Null -> Raise("TypeError")
    [] bytes = Num(7000000) -> S("7 MB")
    [] OTHER -> Str(Fmt(bytes) \o <<" bytes">>)

\* the default name of an RSVP
RsvpName(rsvp) ==
  CASE rsvp = S("yes") -> S("is attending.")
    [] rsvp = S("no") -> S("is not attending.")
    [] rsvp = S("maybe") -> S("might attend.")
    [] OTHER -> Null

\* lines 694-704: props['name'] after the RSVP and invite handling
NameAfterRsvp(props, rsvp) ==
  LET name == Get(props, "name")
      named == IF Truthy(name) THEN name.l ELSE <<RsvpName(rsvp)>>
  IN IF Truthy(rsvp)
     THEN List(<<Str(<<"<data class=\"p-rsvp\" value=\"">> \o Fmt(rsvp) \o <<"\">">> \o
                     Fmt(named[1]) \o <<"</data>">>)>> \o Tail(named))
     ELSE IF Truthy(Get(props, "invitee")) /\ ~Truthy(name) THEN List(<<S("invited")>>)
     ELSE IF Has(props, "name") THEN name ELSE Absent

\* The argument of json_to_html as the call leaves it.  props is a shallow
\* copy, so props['name'][0] = ... writes into the caller's own name list
\* whenever the item came with a non-empty one.  (The nested items of the
\* model's inputs are not RSVPs, so the recursive calls leave them as they
\* are.)
Mf2AfterJsonToHtml(item) ==
  IF ~Truthy(item) \/ S("h-card") \in Range(GetD(item, "type", EmptyList).l) THEN item
  ELSE LET props == GetD(item, "properties", EmptyDict)
           rsvp == Get(first_props(props), "rsvp")
       IN IF Truthy(rsvp) /\ Truthy(Get(props, "name"))
          THEN Put(item, "properties", Put(props, "name", NameAfterRsvp(props, rsvp)))
          ELSE item

RECURSIVE json_to_html(_, _)

\* mutant of HtmlTargets: targets given as bare URLs are not linked
HtmlTargetsEmbeddedOnly(props, mftype) ==
  LET ts == GetD(props, mftype, EmptyList).l
  IN [i \in DOMAIN ts |->
       IF IsStr(ts[i]) THEN Str(<<>>)
       ELSE json_to_html(ts[i], <<Str(<<"u-", mftype>>)>>)]

\* lines 709-714: the like, repost and follow targets
HtmlTargets(props, mftype) ==
  LET ts == GetD(props, mftype, EmptyList).l
  IN [i \in DOMAIN ts |->
       IF IsStr(ts[i])
       THEN Str(<<"<a class=\"u-", mftype, "\" href=\"">> \o Fmt(ts[i]) \o <<"\"></a>">>)
       ELSE json_to_html(ts[i], <<Str(<<"u-", mftype>>)>>)]

\* lines 767-773: embedded likes and reposts of this post
HtmlEmbedded(props, verb, verb_of) ==
  LET vals == GetD(props, verb, EmptyList).l
  IN IF ~Has(props, verb_of) /\ vals # <<>> /\ IsDict(vals[1])
     THEN [i \in DOMAIN vals |-> json_to_html(vals[i], <<Str(<<"u-", verb>>)>>)]
     ELSE <<>>

\* lines 747-748: one size, human-readable
HtmlSize(bytes, formatted) ==
  IF IsRaise(formatted) THEN formatted
  ELSE Str(<<"<data class=\"p-size\" value=\"">> \o Fmt(bytes) \o <<"\">">> \o
           Fmt(formatted) \o <<"</data>">>)

\* lines 743-748: the sizes
HtmlSizes(props) ==
  LET all == GetD(props, "size", EmptyList).l
      size_vals == SeqFilterIn(all, {x \in Range(all) : Truthy(x)})
  IN [i \in DOMAIN size_vals |->
       HtmlSize(size_to_bytes(size_vals[i]), format_size(size_to_bytes(size_vals[i])))]

\* lines 682-685: the in-reply-to and tag-of links
HtmlLinks(props, p) ==
  LET urls == SortedStrs(get_string_urls(GetD(props, p, EmptyList).l))
  IN [i \in DOMAIN urls |->
       <<"  <a class=\"u-", p, "\" href=\"">> \o Fmt(urls[i]) \o <<"\"></a>">>]

\* lines 751-757: the categories
HtmlCategories(cats) ==
  LET people_cats == SeqFilterIn(cats,
                       {c \in Range(cats) :
                          /\ IsDict(c)
                          /\ S("h-card") \in Range(GetD(c, "type", EmptyList).l)
                          /\ ~Truthy(Get(c, "startIndex"))})
      str_cats == SeqFilterIn(cats, {c \in Range(cats) : IsStr(c)})
  IN [i \in DOMAIN people_cats |->
       hcard_to_html(people_cats[i], <<S("u-category"), S("h-card")>>)] \o
     [i \in DOMAIN str_cats |->
       <<"<span class=\"u-category\">">> \o Fmt(str_cats[i]) \o <<"</span>">>]

\* lines 784-790: the event times
HtmlEventTimes(start, end) ==
  [i \in DOMAIN start |-> <<"  <time class=\"dt-start\">">> \o Fmt(start[i]) \o <<"</time>">>] \o
  (IF start # <<>> /\ end # <<>> THEN << <<"  to">> >> ELSE <<>>) \o
  [i \in DOMAIN end |-> <<"  <time class=\"dt-end\">">> \o Fmt(end[i]) \o <<"</time>">>]

\* lines 779-781: a location given as a plain string
HtmlLocation(prop) ==
  IF IsStr(Get(prop, "location")) /\ Has(prop, "location")
  THEN FromPairs(<< <<"properties",
                      FromPairs(<< <<"name", List(<<Get(prop, "location")>>)>> >>)>> >>)
  ELSE Get(prop, "location")

\* text of each rendered piece
Strs(seq) == [i \in DOMAIN seq |-> seq[i].s]

\* lines 731-811: the article, given its rendered pieces
HtmlArticle(item, parent_props, prop, props, links, content_html, content_classes, sizes, comments, children, raised) ==
  LET summary == IF Truthy(Get(prop, "summary"))
                 THEN <<"<div class=\"p-summary\">">> \o Fmt(Get(prop, "summary")) \o <<"</div>">>
                 ELSE <<>>
      photos == GetD(props, "photo", EmptyList).l
      videos == GetD(props, "video", EmptyList).l
      audios == GetD(props, "audio", EmptyList).l
      attachments == [i \in DOMAIN photos |-> img(photos[i], EmptyStr)] \o
                     [i \in DOMAIN videos |-> vid(videos[i], EmptyStr)] \o
                     [i \in DOMAIN audios |-> aud(audios[i])]
      invitee_items == GetD(props, "invitee", EmptyList).l
      invitees == [i \in DOMAIN invitee_items |->
                    hcard_to_html(invitee_items[i], <<S("p-invitee")>>)]
  IN IF raised # <<>> THEN raised[1]
     ELSE Str(
       <<"<article class=\"">> \o
       JoinStrs(" ", parent_props \o GetD(item, "type", EmptyList).l) \o
       <<"\">\n  <span class=\"p-uid\">">> \o Fmt(GetD(prop, "uid", EmptyStr)) \o
       <<"</span>\n  ">> \o summary \o <<"\n  ">> \o
       maybe_datetime(Get(prop, "published"), S("dt-published")) \o <<"\n  ">> \o
       maybe_datetime(Get(prop, "updated"), S("dt-updated")) \o <<"\n">> \o
       hcard_to_html(Get(prop, "author"), <<S("p-author")>>) \o <<"\n  ">> \o
       maybe_linked_name(props) \o
       <<"\n  <div class=\"">> \o JoinStrs(" ", content_classes) \o <<"\">\n  ">> \o
       Join(<<"\n">>, invitees) \o <<"\n  ">> \o content_html.s \o <<"\n  </div>\n">> \o
       Join(<<"\n">>, attachments) \o <<"\n">> \o
       Join(<<"\n">>, Strs(sizes)) \o <<"\n">> \o
       Join(<<"\n">>, HtmlEventTimes(GetD(props, "start", EmptyList).l,
                                     GetD(props, "end", EmptyList).l)) \o <<"\n">> \o
       hcard_to_html(HtmlLocation(prop), <<S("p-location")>>) \o <<"\n">> \o
       Join(<<"\n">>, HtmlCategories(GetD(props, "category", EmptyList).l)) \o <<"\n">> \o
       Join(<<"\n">>, links) \o <<"\n">> \o
       Join(<<"\n">>, Strs(children)) \o <<"\n">> \o
       Join(<<"\n">>, Strs(comments)) \o <<"\n</article>\n">>)

\* lines 706-811, given the pieces rendered from the properties
HtmlPieces(item, parent_props, prop, props, links, content_html, content_classes, sizes, comments, children) ==
  HtmlArticle(item, parent_props, prop, props, links, content_html, content_classes,
              sizes, comments, children, FirstRaised(sizes \o comments \o children))

\* the comments rendered
HtmlComments(comment_items) ==
  [i \in DOMAIN comment_items |-> json_to_html(comment_items[i], <<S("p-comment")>>)]

\* the children rendered
HtmlChildren(child_items) ==
  [i \in DOMAIN child_items |-> json_to_html(child_items[i], <<>>)]

\* lines 706-811, given the properties before (props1) and after (props)
\* the empty name of lines 725-729
HtmlWithName(item, parent_props, prop, props1, props, links, content_html) ==
  HtmlPieces(item, parent_props, prop, props, links, content_html,
             IF Truthy(content_html)
             THEN <<S("e-content")>> \o
                  (IF ~Truthy(Get(props1, "name")) THEN <<S("p-name")>> ELSE <<>>)
             ELSE <<>>,
             HtmlSizes(props),
             HtmlComments(GetD(props, "comment", EmptyList).l),
             HtmlTargets(props1, "follow-of") \o HtmlTargets(props1, "like-of") \o
             HtmlTargets(props1, "repost-of") \o
             HtmlEmbedded(props, "like", "like-of") \o
             HtmlEmbedded(props, "repost", "repost-of") \o
             HtmlChildren(GetD(item, "children", EmptyList).l))

\* mutant of HtmlNamed: no blank name is set when the content is empty
HtmlNamedWithoutBlankName(item, parent_props, prop, props1, links, content_html) ==
  HtmlWithName(item, parent_props, prop, props1, props1, links, content_html)

\* lines 717-811, given the properties after the RSVP and invite naming
HtmlNamed(item, parent_props, prop, props1, links, content_html) ==
  HtmlWithName(item, parent_props, prop, props1,
               IF ~Truthy(content_html) /\ ~Truthy(Get(props1, "name"))
               THEN Put(props1, "name", List(<<EmptyStr>>)) ELSE props1,
               links, content_html)

\* lines 680-811, given the properties and their first values
HtmlEntry(item, parent_props, props0, prop, name1) ==
  HtmlNamed(item, parent_props, prop,
            IF name1 = Absent THEN props0 ELSE Put(props0, "name", name1),
            HtmlLinks(props0, "in-reply-to") \o HtmlLinks(props0, "tag-of"),
            get_html(GetD(prop, "content", EmptyDict)))

\* json_to_html(obj, parent_props)
json_to_html(item, parent_props) ==
  IF ~Truthy(item) THEN Str(<<>>)
  ELSE IF S("h-card") \in Range(GetD(item, "type", EmptyList).l)
  THEN Str(hcard_to_html(item, parent_props))
  ELSE HtmlEntry(item, parent_props, GetD(item, "properties", EmptyDict),
                 first_props(GetD(item, "properties", EmptyDict)),
                 NameAfterRsvp(GetD(item, "properties", EmptyDict),
                               Get(first_props(GetD(item, "properties", EmptyDict)), "rsvp")))

\* no call into instagram.py's rate limiting or scraping is made
NoScraping ==
  /\ clock = 0
  /\ last_rate_limited = Null
  /\ last_rate_limited_exc = Null
  /\ threads = <<>>
  /\ log = <<>>
  /\ cache = Null
  /\ cache_calls = <<>>
  /\ scrape = Null

----------------------------------------------------------------------------
(* Inputs *)

U1 == S("http://a/1")
U2 == S("http://b/2")
U3 == S("http://c/3")
UX == S("http://x/1")
Id1 == S("tag:x,2020:1")
Hello == Str(<<"h", "e", "l", "l", "o">>)

\* o with the pairs of ps set (Absent leaves the key as it is)
With(o, ps) ==
  LET extra == FromPairs(ps)
  IN Dict([k \in DOMAIN o.d \cup DOMAIN extra.d |->
            IF k \in DOMAIN extra.d THEN extra.d[k] ELSE o.d[k]])

UrlOnly(u) == FromPairs(<< <<"url", u>> >>)

Alice == FromPairs(<< <<"objectType", S("person")>>, <<"displayName", S("alice")>>,
                      <<"url", U1>>, <<"id", S("tag:alice")>> >>)

Place1 == FromPairs(<< <<"objectType", S("place")>>, <<"displayName", S("bob")>>,
                       <<"latitude", Float("10.5")>>, <<"longitude", Float("-20.5")>> >>)

\* a post with an author, as the target of a share
RichTarget == FromPairs(<< <<"objectType", S("note")>>, <<"url", U2>>,
                           <<"content", Hello>>, <<"author", Alice>> >>)

Activity(verb, ps) ==
  With(FromPairs(<< <<"objectType", S("activity")>>, <<"verb", S(verb)>> >>), ps)

\* one object per objectType and verb the converter distinguishes
Kinds ==
  { EmptyDict,
    FromPairs(<< <<"objectType", S("note")>> >>),
    FromPairs(<< <<"objectType", S("article")>>, <<"displayName", S("alice")>> >>),
    FromPairs(<< <<"objectType", S("comment")>>, <<"inReplyTo", List(<<UrlOnly(U2)>>)>> >>),
    Alice,
    Place1,
    FromPairs(<< <<"objectType", S("event")>>, <<"startTime", S("2020-01-01")>> >>),
    FromPairs(<< <<"objectType", S("bookmark")>>, <<"targetUrl", U3>> >>),
    Activity("post", << <<"object", FromPairs(<< <<"objectType", S("note")>>,
                                                 <<"id", S("tag:obj")>>,
                                                 <<"content", Hello>> >>)>> >>),
    Activity("like", << <<"object", UrlOnly(UX)>> >>),
    Activity("share", << <<"object", RichTarget>> >>),
    Activity("follow", << <<"object", UrlOnly(U1)>> >>),
    Activity("invite", << <<"object", Alice>> >>),
    Activity("rsvp-yes", << <<"object", UrlOnly(U3)>> >>),
    Activity("rsvp-no", << <<"object", UrlOnly(U3)>>,
                           <<"inReplyTo", List(<<UrlOnly(U2)>>)>> >>),
    Activity("rsvp-maybe", << <<"object", List(<<UrlOnly(U3)>>)>>,
                              <<"context", FromPairs(<< <<"inReplyTo",
                                                         List(<<UrlOnly(U2)>>)>> >>)>> >>),
    Activity("react", << <<"object", UrlOnly(U3)>>,
                         <<"inReplyTo", List(<<UrlOnly(U2)>>)>> >>),
    Activity("tag", << <<"object", FromPairs(<< <<"displayName", S("tag")>> >>)>>,
                       <<"target", UrlOnly(U3)>> >>),
    Activity("tag", << <<"object", FromPairs(<< <<"displayName", S("tag")>> >>)>>,
                       <<"target", UrlOnly(U3)>>,
                       <<"inReplyTo", List(<<UrlOnly(U2)>>)>> >>) }

Ids == {Absent, Null, EmptyStr, Id1}

\* every kind, with and without an id, a url and content
PlainObjects ==
  {With(k, << <<"id", id>>, <<"url", url>>, <<"content", content>> >>) :
     k \in Kinds, id \in Ids, url \in {Absent, UX}, content \in {Absent, Hello}}

\* a media stream, by the kind of duration it carries
Stream(duration) ==
  FromPairs(<< <<"url", U3>>, <<"duration", duration>>, <<"size", Num(123)>> >>)

Durations == {Absent, Num(60), S("60"), Float("3.5"), S("abc")}

\* the note of the spec's scenario
SimpleNote == FromPairs(<< <<"objectType", S("note")>>, <<"content", Hello>>,
                           <<"id", Id1>>, <<"url", UX>> >>)

\* the parts an object can carry besides its own fields
Features ==
  { << <<"author", Alice>> >>,
    << <<"actor", Alice>> >>,
    << <<"location", Place1>> >>,
    << <<"position", S("+10.5-20.5/")>> >>,
    << <<"replies", FromPairs(<< <<"items", List(<<With(SimpleNote, << <<"id", S("tag:c")>> >>)>>)>> >>)>> >>,
    << <<"tags", List(<<Alice, FromPairs(<< <<"objectType", S("hashtag")>>,
                                           <<"displayName", S("tag")>>,
                                           <<"url", U2>> >>)>>)>> >>,
    << <<"tags", List(<<Activity("like", << <<"author", Alice>>, <<"url", U1>> >>),
                        Activity("share", << <<"author", Alice>>, <<"url", U2>> >>)>>)>> >>,
    << <<"attachments", List(<<FromPairs(<< <<"objectType", S("note")>>, <<"url", U2>>,
                                            <<"content", Hello>> >>),
                               FromPairs(<< <<"objectType", S("article")>>,
                                            <<"url", U3>> >>)>>)>> >>,
    << <<"attachments", List(<<FromPairs(<< <<"objectType", S("image")>>,
                                            <<"image", FromPairs(<< <<"url", U1>>,
                                                 <<"displayName", S("alice")>> >>)>> >>)>>)>>,
       <<"image", List(<<UrlOnly(U1), UrlOnly(U2)>>)>> >>,
    << <<"upstreamDuplicates", List(<<U2>>)>>,
       <<"urls", List(<<FromPairs(<< <<"value", UX>> >>),
                        FromPairs(<< <<"value", U3>> >>)>>)>> >>,
    << <<"content", Str(<<"a", "&lt;", "b">>)>> >>,
    << <<"content", Str(<<"a", "\n", "b">>)>> >>,
    << <<"content", Str(<<"<", "b", ">", "a", "<", "/", "b", ">">>)>>, <<"content_is_html", S("True")>> >>,
    << <<"numeric_id", S("123")>>, <<"username", S("alice")>>, <<"summary", S("bob")>>,
       <<"published", S("2020-01-01")>>, <<"updated", S("2020-01-02")>> >> }

\* notes that carry one of the features
RichObjects == {With(SimpleNote, f) : f \in Features}

\* objects with media: a stream of their own and a video or audio attachment
MediaObjects ==
  {With(SimpleNote,
        << <<"stream", IF own = Absent THEN Absent ELSE Stream(own)>>,
           <<"attachments",
             IF att = Absent THEN Absent
             ELSE List(<<FromPairs(<< <<"objectType", type>>,
                                      <<"stream", With(Stream(att), << <<"url", U1>> >>)>> >>)>>)>> >>) :
     own \in Durations \cup {Null}, att \in Durations, type \in {S("video"), S("audio")}}

\* a note whose video and audio attachments repeat each other's stream and
\* the note's own
RepeatedMedia ==
  LET Att(type, u) == FromPairs(<< <<"objectType", S(type)>>,
                                   <<"stream", FromPairs(<< <<"url", u>> >>)>> >>)
  IN With(SimpleNote,
          << <<"stream", FromPairs(<< <<"url", U3>> >>)>>,
             <<"attachments", List(<<Att("video", U1), Att("audio", U2), Att("video", U3),
                                     Att("video", U1), Att("audio", U2)>>)>> >>)

AS1Inputs == PlainObjects \cup RichObjects \cup MediaObjects \cup {RepeatedMedia}

\* keyword arguments of object_to_json
O2JArgs ==
  [trim_nulls : BOOLEAN,
   entry_class : {S("h-entry"), List(<<S("u-quotation-of"), S("h-cite")>>)},
   default_object_type : {Null},
   synthesize_content : {TRUE}]

\* what the authorship algorithm can answer
FoundAuthors == {Null, FromPairs(<< <<"name", S("bob")>>, <<"url", U2>> >>)}

----------------------------------------------------------------------------
(* The caller of object_to_json and json_to_object *)

MaxCalls == 2

Last(seq) == seq[Len(seq)]

Init ==
  /\ obj \in AS1Inputs
  /\ obj0 = obj
  /\ args \in O2JArgs
  /\ mf2 = Null
  /\ mf20 = Null
  /\ rets = <<>>
  /\ page = <<>>
  /\ op = ""
  /\ NoScraping

\* ret = object_to_json(obj, **args), on the object the caller holds
ObjectToJson ==
  /\ op \in {"", "object_to_json"}
  /\ Len(rets) < MaxCalls
  /\ rets' = Append(rets, object_to_json(obj, args.trim_nulls, args.entry_class,
                                         args.default_object_type,
                                         args.synthesize_content))
  /\ obj' = ObjAfterObjectToJson(obj, args.default_object_type)
  /\ op' = "object_to_json"
  /\ UNCHANGED <<obj0, mf2, mf20, args, page>>
  /\ UNCHANGED instagram_vars

\* ret = json_to_object(mf2) on the item the first object_to_json returned
JsonToObject ==
  /\ op = "object_to_json"
  /\ Len(rets) = 1
  /\ ~IsRaise(rets[1])
  /\ \E found \in FoundAuthors :
       rets' = <<json_to_object(rets[1], Null, found)>>
  /\ mf2' = rets[1]
  /\ mf20' = rets[1]
  /\ op' = "json_to_object"
  /\ UNCHANGED <<obj, obj0, args, page>>
  /\ UNCHANGED instagram_vars

Next == ObjectToJson \/ JsonToObject

Spec == Init /\ [][Next]_vars

----------------------------------------------------------------------------
(* Claims about object_to_json and the round trip, checked under Spec *)

DefaultArgs == args.trim_nulls /\ args.entry_class = S("h-entry")

Properties(item) == GetD(item, "properties", EmptyDict)

RECURSIVE PropertiesAreSequences(_)
\* every value under 'properties' of the item, of its children and of every
\* item nested in a property is a list
PropertiesAreSequences(item) ==
  \/ ~IsDict(item)
  \/ LET props == Properties(item)
         children == GetD(item, "children", EmptyList)
     IN /\ IsDict(props)
        /\ \A k \in DOMAIN props.d :
             /\ IsList(props.d[k])
             /\ \A i \in DOMAIN props.d[k].l : PropertiesAreSequences(props.d[k].l[i])
        /\ IsList(children)
        /\ \A i \in DOMAIN children.l : PropertiesAreSequences(children.l[i])

\* C2: in every MF2 item object_to_json returns (trim_nulls true or false, nested
\* items included), each value under 'properties' is a sequence.
C2_MultiValued ==
  op = "object_to_json" => \A i \in DOMAIN rets : PropertiesAreSequences(rets[i])

\* an untrimmed item with content and a nested author card
C2_Witness ==
  /\ op = "object_to_json"
  /\ ~args.trim_nulls
  /\ IsDict(rets[1])
  /\ Get(Properties(rets[1]), "content") = List(<<Hello>>)
  /\ Get(Properties(Get(Properties(rets[1]), "author").l[1]), "name") = List(<<S("alice")>>)
  /\ Get(Properties(rets[1]), "duration") = List(<<Null>>)

\* C3: object_to_json leaves its argument deep-equal to what it was, and a
\* second call on the same input returns what the first returned.
C3_ArgumentUnchanged ==
  op = "object_to_json" => (obj = obj0 /\ \A i \in DOMAIN rets : rets[i] = rets[1])

\* the stream object_to_json takes duration and size from
SelectedStream(o) ==
  LET primary == IF object_type(o) = S("post") THEN GetD(o, "object", EmptyDict) ELSE o
      elems == GetList(primary, "attachments") \o GetList(primary, "tags")
      Of(type) == SeqFilterIn(elems, {e \in Range(elems) : Get(e, "objectType") = type})
  IN SelectStream(<<o>> \o Of(S("video")) \o Of(S("audio")), EmptyDict)

NoDuration(item) == TrimNulls(GetD(Properties(item), "duration", EmptyList)) = EmptyList

\* C5: when the selected stream's duration is not an integer, object_to_json
\* raises nothing and returns an item with no duration.
C5_MalformedDurationIgnored ==
  (op = "object_to_json" /\ Get(SelectedStream(obj0), "duration") # Null
                         /\ ~IsInt(Get(SelectedStream(obj0), "duration")))
    => \A i \in DOMAIN rets : ~IsRaise(rets[i]) /\ NoDuration(rets[i])

\* the object type object_to_json maps: the object's own, or that of the
\* object a post activity wraps
EffectiveType(o) ==
  IF object_type(o) = S("post") THEN object_type(GetD(o, "object", EmptyDict))
  ELSE object_type(o)

\* C8: for every entry_class (a string or a sequence), type is ['h-event'] for
\* an event, ['h-card'] for a person, ['h-card', 'p-location'] for a place and
\* the entry class(es) for every other object type.
C8_TypeTable ==
  (op = "object_to_json" /\ Truthy(obj0))
    => \A i \in DOMAIN rets :
         IsRaise(rets[i]) \/
         Get(rets[i], "type") =
           (CASE EffectiveType(obj0) = S("event") -> List(<<S("h-event")>>)
              [] EffectiveType(obj0) = S("person") -> List(<<S("h-card")>>)
              [] EffectiveType(obj0) = S("place") -> List(<<S("h-card"), S("p-location")>>)
              [] OTHER -> IF IsStr(args.entry_class) THEN List(<<args.entry_class>>)
                          ELSE args.entry_class)

\* C10 as stated: the simple note converts to type ['h-entry'], uid, url and
\* content == [{value: 'hello'}].
C10_NoteContentAsValue ==
  (op = "object_to_json" /\ obj0 = SimpleNote /\ DefaultArgs)
    => /\ Get(rets[1], "type") = List(<<S("h-entry")>>)
       /\ Get(Properties(rets[1]), "uid") = List(<<Id1>>)
       /\ Get(Properties(rets[1]), "url") = List(<<UX>>)
       /\ Get(Properties(rets[1]), "content") = List(<<FromPairs(<< <<"value", Hello>> >>)>>)

\* objects whose rendered content is their text alone: no tags, no markup or
\* newline in the content, nothing synthesized
PlainContent(o) ==
  /\ object_type(o) \in {S("note"), S("article"), S("comment"), S("event")}
  /\ ~Has(o, "tags")
  /\ IsStr(Get(o, "content"))
  /\ ~HasLt(Get(o, "content"))
  /\ ~HasNewline(Get(o, "content"))

\* C10 amended: the simple note converts to type ['h-entry'], uid, url and
\* content == ['hello'], the bare string; in general content without markup is
\* stored as its bare plain text, and a content mapping always has an html
\* field that holds markup.
C10_NoteContent ==
  op = "object_to_json" =>
    /\ (obj0 = SimpleNote /\ DefaultArgs) =>
         /\ Get(rets[1], "type") = List(<<S("h-entry")>>)
         /\ Get(Properties(rets[1]), "uid") = List(<<Id1>>)
         /\ Get(Properties(rets[1]), "url") = List(<<UX>>)
         /\ Get(Properties(rets[1]), "content") = List(<<Hello>>)
    /\ \A i \in DOMAIN rets :
         IsRaise(rets[i]) \/
         LET content == GetD(Properties(rets[i]), "content", EmptyList).l
         IN /\ PlainContent(obj0) =>
                 content = <<Unescape(Get(obj0, "content"))>>
            /\ \A j \in DOMAIN content :
                 \/ IsStr(content[j])
                 \/ /\ IsDict(content[j])
                    /\ IsStr(Get(content[j], "html"))
                    /\ HasLt(Get(content[j], "html"))

\* the simple note has been converted with the default arguments
C10_Witness ==
  /\ op = "object_to_json"
  /\ obj0 = SimpleNote
  /\ DefaultArgs
  /\ Get(Properties(rets[1]), "content") = List(<<Hello>>)

\* the stream URLs of the object's attachments of a media type and then its
\* own, each once
MediaUrls(o, type) ==
  LET atts == GetList(o, "attachments")
      typed == SeqFilterIn(atts, {a \in Range(atts) : Get(a, "objectType") = S(type)})
  IN DedupeUrls([i \in DOMAIN typed |-> GetUrl(typed[i], "stream")] \o GetUrls(o, "stream"))

\* C24: in object_to_json's output, properties.video and properties.audio
\* each list every stream URL of the attachments of that media type together
\* with the object's own top-level stream URL, each URL at most once, in
\* first-occurrence order.
C24_MediaUrls ==
  (/\ op = "object_to_json"
   /\ obj0 \in MediaObjects \cup {RepeatedMedia}
   /\ ~IsRaise(rets[1]))
    => /\ GetD(Properties(rets[1]), "video", EmptyList).l = MediaUrls(obj0, "video")
       /\ GetD(Properties(rets[1]), "audio", EmptyList).l = MediaUrls(obj0, "audio")

\* what the code does (lines 246-248): the object's own stream is listed under
\* video only
MediaUrlsOwnStreamAsVideo ==
  (/\ op = "object_to_json"
   /\ obj0 \in MediaObjects \cup {RepeatedMedia}
   /\ ~IsRaise(rets[1]))
    => /\ GetD(Properties(rets[1]), "video", EmptyList).l = MediaUrls(obj0, "video")
       /\ GetD(Properties(rets[1]), "audio", EmptyList).l =
            MediaUrls(Del(obj0, "stream"), "audio")

\* the note with repeated attachments has been converted
RepeatedMediaConverted ==
  /\ op = "object_to_json"
  /\ obj0 = RepeatedMedia
  /\ Get(Properties(rets[1]), "video") = List(<<U1, U3>>)
  /\ Get(Properties(rets[1]), "audio") = List(<<U2>>)

----------------------------------------------------------------------------
(* The caller that trims the converter's output again *)

MaxTrims == 2

\* ret = util.trim_nulls(item), on the item object_to_json returned and then
\* on each trimmed result
TrimAgain ==
  /\ \/ op = "object_to_json" /\ Len(rets) = 1
     \/ op = "trim_nulls" /\ Len(rets) < MaxTrims + 1
  /\ ~IsRaise(rets[1])
  /\ rets' = Append(rets, TrimNulls(Last(rets)))
  /\ op' = "trim_nulls"
  /\ UNCHANGED <<obj, obj0, mf2, mf20, args, page>>
  /\ UNCHANGED instagram_vars

NextTrim == ObjectToJson \/ TrimAgain

SpecTrim == Init /\ [][NextTrim]_vars

\* C14: trim_nulls(trim_nulls(x)) == trim_nulls(x) for every item x that
\* object_to_json returns, trimmed or not; and trimming the result of
\* object_to_json(obj, trim_nulls=True) changes nothing.
C14_TrimIdempotent ==
  op = "trim_nulls" =>
    /\ \A i \in 2..Len(rets) : rets[i] = rets[2]
    /\ args.trim_nulls => rets[2] = rets[1]

\* an untrimmed item that trimming changes has been trimmed twice
C14_Witness ==
  /\ op = "trim_nulls"
  /\ ~args.trim_nulls
  /\ Len(rets) = 3
  /\ rets[2] # rets[1]
  /\ rets[3] = rets[2]

\* a trimmed item has been trimmed again
C14_WitnessTrimmed ==
  /\ op = "trim_nulls"
  /\ args.trim_nulls
  /\ Len(rets) = 2
  /\ rets[1] # EmptyDict
  /\ rets[2] = rets[1]

----------------------------------------------------------------------------
(* The caller of render_content *)

MaxTags == 2

\* "hi @a and @b", one token per code point
HiAB == Str(<<"h", "i", " ", "@", "a", " ", "a", "n", "d", " ", "@", "b">>)

Mention(start, length, url) ==
  FromPairs(<< <<"objectType", S("person")>>, <<"url", url>>,
               <<"startIndex", Num(start)>>, <<"length", Num(length)>> >>)

\* the tags a rendered object carries: mentions inside and outside the
\* content, one with an id, and a hashtag that is not a mention
RenderTags ==
  {Mention(start, 2, url) : start \in {3, 10, 13}, url \in {U1, U2}} \cup
  { Mention(0, 0, U1),
    With(Mention(3, 2, U1), << <<"id", S("tag:alice")>> >>),
    With(Mention(10, 2, U2), << <<"id", S("tag:alice")>> >>),
    Mention(4, 2, U2),
    Mention(-2, 2, U2),
    Mention(5, -2, U2),
    FromPairs(<< <<"objectType", S("hashtag")>>, <<"displayName", S("tag")>>,
                 <<"url", U2>> >>) }

RECURSIVE SeqsUpTo(_, _)
\* the sequences over set of length at most n
SeqsUpTo(set, n) ==
  IF n = 0 THEN {<<>>}
  ELSE LET shorter == SeqsUpTo(set, n - 1)
       IN shorter \cup {Append(q, x) : q \in shorter, x \in set}

\* "<b>a</b>\nb", one token per code point
MarkupAndNewline == Str(<<"<", "b", ">", "a", "<", "/", "b", ">", "\n", "b">>)

\* notes without tags, by their content and their content_is_html flag
WhitespaceInputs ==
  {With(FromPairs(<< <<"objectType", S("note")>> >>),
        << <<"content", content>>, <<"content_is_html", flag>> >>) :
     content \in {HiAB, Str(<<"a", "\n", "b">>), MarkupAndNewline,
                  Str(<<"<", "b", ">", "a", "<", "/", "b", ">">>)},
     flag \in {Absent, S("True")}}

RenderInputs ==
  {With(FromPairs(<< <<"objectType", S("note")>> >>),
        << <<"content", content>>, <<"tags", List(tags)>> >>) :
     content \in {HiAB, EmptyStr, Str(<<"a", "\n", "b">>)},
     tags \in SeqsUpTo(RenderTags, MaxTags)}
  \cup WhitespaceInputs

InitRender ==
  /\ obj \in RenderInputs
  /\ obj0 = obj
  /\ args \in [white_space_pre : BOOLEAN]
  /\ mf2 = Null
  /\ mf20 = Null
  /\ rets = <<>>
  /\ page = <<>>
  /\ op = ""
  /\ NoScraping

\* ret = render_content(obj, white_space_pre=...), the other arguments at
\* their defaults
RenderContent ==
  /\ op \in {"", "render_content"}
  /\ Len(rets) < MaxCalls
  /\ rets' = Append(rets, render_content(obj, TRUE, TRUE, FALSE, FALSE,
                                         args.white_space_pre))
  /\ op' = "render_content"
  /\ UNCHANGED <<obj, obj0, mf2, mf20, args, page>>
  /\ UNCHANGED instagram_vars

NextRender == RenderContent

SpecRender == InitRender /\ [][NextRender]_vars

\* the object of the mention scenario, with @b's mention at second_start
MentionScenario(second_start) ==
  FromPairs(<< <<"objectType", S("note")>>, <<"content", HiAB>>,
               <<"tags", List(<<Mention(3, 2, U1), Mention(second_start, 2, U2)>>)>> >>)

\* 'hi <a href="U1">@a</a> and <a href="U2">@b</a>'
TwoAnchors ==
  Str(<<"h", "i", " ", "<a href=\"", U1.s[1], "\">", "@", "a", "</a>",
        " ", "a", "n", "d", " ", "<a href=\"", U2.s[1], "\">", "@", "b", "</a>">>)

\* C9 as stated: with @b's mention at startIndex 13, render_content returns
\* the content with two anchors wrapping "@a" and "@b", all else unchanged.
C9_MentionsAt3And13 ==
  (op = "render_content" /\ obj0 = MentionScenario(13))
    => \A i \in DOMAIN rets : rets[i] = TwoAnchors

\* C9 amended: "@b" starts at index 10 of "hi @a and @b"; with @b's mention at
\* startIndex 10, render_content returns the content with exactly two anchors,
\* the first with href U1 wrapping "@a" and the second with href U2 wrapping
\* "@b", all other characters unchanged.
C9_MentionsAt3And10 ==
  (op = "render_content" /\ obj0 = MentionScenario(10))
    => \A i \in DOMAIN rets : rets[i] = TwoAnchors

\* the scenario with the mention at 10 has been rendered
C9_Witness ==
  /\ op = "render_content"
  /\ obj0 = MentionScenario(10)
  /\ rets # <<>>
  /\ rets[1] = TwoAnchors

\* the tags of the rendered object
TagsOf(o) == GetD(o, "tags", EmptyList).l

\* the range [startIndex, startIndex + length) of a mention
StartOf(t) == Get(t, "startIndex").n
EndOf(t) == Get(t, "startIndex").n + Get(t, "length").n

\* every tag is an inline mention whose range lies inside the content
MentionsInside(o) ==
  \A i \in DOMAIN TagsOf(o) :
    /\ IsMention(TagsOf(o)[i])
    /\ 0 <= StartOf(TagsOf(o)[i])
    /\ StartOf(TagsOf(o)[i]) <= EndOf(TagsOf(o)[i])
    /\ EndOf(TagsOf(o)[i]) <= Len(Get(o, "content").s)

\* no two ranges overlap: taken by ascending startIndex (equal starts in the
\* order given), each range ends at or before the start of the next
NoOverlap(o) ==
  \A i, j \in DOMAIN TagsOf(o) :
    (StartOf(TagsOf(o)[i]) < StartOf(TagsOf(o)[j])
       \/ (StartOf(TagsOf(o)[i]) = StartOf(TagsOf(o)[j]) /\ i < j))
      => EndOf(TagsOf(o)[i]) <= StartOf(TagsOf(o)[j])

\* the position of the first </a> of toks
FirstClose(toks) ==
  CHOOSE j \in DOMAIN toks : toks[j] = "</a>" /\ \A k \in 1..(j - 1) : toks[k] # "</a>"

RECURSIVE AnchorsIn(_, _)
\* the anchors of rendered content, in order: each with its href, the text it
\* wraps and the number of content characters before it
AnchorsIn(toks, at) ==
  IF toks = <<>> THEN <<>>
  ELSE IF Head(toks) = "<a href=\""
  THEN <<[url |-> toks[2], text |-> SubSeq(toks, 4, FirstClose(toks) - 1), at |-> at]>> \o
       AnchorsIn(SubSeq(toks, FirstClose(toks) + 1, Len(toks)),
                 at + FirstClose(toks) - 4)
  ELSE AnchorsIn(Tail(toks), at + 1)

RECURSIVE WithoutAnchors(_)
\* rendered content with its anchor tags deleted
WithoutAnchors(toks) ==
  IF toks = <<>> THEN <<>>
  ELSE IF Head(toks) = "<a href=\"" THEN WithoutAnchors(SubSeq(toks, 4, Len(toks)))
  ELSE IF Head(toks) = "</a>" THEN WithoutAnchors(Tail(toks))
  ELSE <<Head(toks)>> \o WithoutAnchors(Tail(toks))

\* the anchor a mention of the content should give
AnchorOf(o, t) ==
  [url |-> Get(t, "url").s[1],
   text |-> SubSeq(Get(o, "content").s, StartOf(t) + 1, EndOf(t)),
   at |-> StartOf(t)]

\* html is the content with exactly one anchor for each of the tags at the
\* indices in which, in ascending startIndex order, and nothing else changed
AnchorsExactly(html, o, which) ==
  LET anchors == AnchorsIn(html, 0)
  IN /\ WithoutAnchors(html) = Get(o, "content").s
     /\ Len(anchors) = Cardinality(which)
     /\ \A i, j \in DOMAIN anchors : i < j => anchors[i].at <= anchors[j].at
     /\ \A i \in which :
          Cardinality({k \in DOMAIN anchors : anchors[k] = AnchorOf(o, TagsOf(o)[i])}) =
          Cardinality({k \in which : AnchorOf(o, TagsOf(o)[k]) = AnchorOf(o, TagsOf(o)[i])})

\* the tags whose non-empty id no earlier tag carries
KeptTags(o) ==
  {i \in DOMAIN TagsOf(o) :
     ~\E j \in 1..(i - 1) :
        Truthy(Get(TagsOf(o)[j], "id")) /\ Get(TagsOf(o)[j], "id") = Get(TagsOf(o)[i], "id")}

\* C16 as stated: for mentions in any order whose ranges lie inside the
\* content and do not overlap, render_content emits exactly one anchor per
\* mention, in ascending startIndex order, each wrapping the characters of
\* its range, and deleting the anchor tags gives back the content.
C16_OneAnchorPerMention ==
  (/\ op = "render_content"
   /\ ~HasNewline(Get(obj0, "content"))
   /\ MentionsInside(obj0)
   /\ NoOverlap(obj0))
    => \A r \in DOMAIN rets : AnchorsExactly(rets[r].s, obj0, DOMAIN TagsOf(obj0))

\* C16 amended: for mentions in any order whose ranges lie inside the
\* content and do not overlap, render_content emits exactly one anchor for
\* each mention except those whose non-empty id an earlier tag of the list
\* carries, which it skips; the anchors are in ascending startIndex order,
\* each wraps the characters of its range, and deleting the anchor tags gives
\* back the content.
C16_OneAnchorPerKeptMention ==
  (/\ op = "render_content"
   /\ ~HasNewline(Get(obj0, "content"))
   /\ MentionsInside(obj0)
   /\ NoOverlap(obj0))
    => \A r \in DOMAIN rets : AnchorsExactly(rets[r].s, obj0, KeptTags(obj0))

\* two mentions given in descending order have been spliced in ascending order
C16_Witness ==
  /\ op = "render_content"
  /\ TagsOf(obj0) = <<Mention(10, 2, U2), Mention(3, 2, U1)>>
  /\ rets[1] = TwoAnchors

\* C17: when a mention's range overlaps an earlier mention's range, extends
\* past the end of the content, or has a negative start or length,
\* render_content raises no error and no character of the content is
\* duplicated or lost in the output.
C17_MalformedMentionAbsent ==
  (/\ op = "render_content"
   /\ ~HasNewline(Get(obj0, "content"))
   /\ \A i \in DOMAIN TagsOf(obj0) : IsMention(TagsOf(obj0)[i])
   /\ ~(MentionsInside(obj0) /\ NoOverlap(obj0)))
    => \A r \in DOMAIN rets :
         ~IsRaise(rets[r]) /\ WithoutAnchors(rets[r].s) = Get(obj0, "content").s

\* the distinct ranges of the object's mentions
RangesOf(o) == {<<StartOf(TagsOf(o)[i]), EndOf(TagsOf(o)[i])>> : i \in DOMAIN TagsOf(o)}

\* C18: no mention range is spliced into the content more than once; a tag
\* whose non-empty id an earlier tag carries is neither spliced nor appended
\* as a trailing tag, and every other mention, those without an id included,
\* is spliced.
C18_NoRangeSplicedTwice ==
  (/\ op = "render_content"
   /\ ~HasNewline(Get(obj0, "content"))
   /\ MentionsInside(obj0))
    => \A r \in DOMAIN rets :
         /\ Len(AnchorsIn(rets[r].s, 0)) = Cardinality(KeptTags(obj0))
         /\ \A i \in DOMAIN rets[r].s : rets[r].s[i] # "\n<a class=\""
         /\ Len(AnchorsIn(rets[r].s, 0)) <= Cardinality(RangesOf(obj0))

\* what the de-duplication by id does ensure: a tag whose non-empty id an
\* earlier tag carries is neither spliced nor appended, and every other
\* mention is spliced
SeenIdsAreSkipped ==
  (/\ op = "render_content"
   /\ ~HasNewline(Get(obj0, "content"))
   /\ MentionsInside(obj0))
    => \A r \in DOMAIN rets :
         /\ Len(AnchorsIn(rets[r].s, 0)) = Cardinality(KeptTags(obj0))
         /\ \A i \in DOMAIN rets[r].s : rets[r].s[i] # "\n<a class=\""

\* html is wrapped in the white-space: pre block
InPreBlock(html) ==
  /\ html # <<>>
  /\ Head(html) = "<div style=\"white-space: pre\">"
  /\ html[Len(html)] = "</div>"

\* html has a <br /> line break
HasLineBreak(html) == \E i \in DOMAIN html : html[i] = "<br />"

\* C19: render_content wraps the content in the white-space: pre block
\* (white_space_pre true) or gives each newline a <br /> (white_space_pre
\* false) if and only if the content contains a newline and no markup;
\* content with HTML tags is never wrapped or given line breaks, whether or
\* not content_is_html is set.
C19_WrapIffNoMarkup ==
  (op = "render_content" /\ obj0 \in WhitespaceInputs)
    => \A r \in DOMAIN rets :
         IF HasNewline(Get(obj0, "content")) /\ ~HasLt(Get(obj0, "content"))
         THEN /\ args.white_space_pre => InPreBlock(rets[r].s)
              /\ ~args.white_space_pre => HasLineBreak(rets[r].s)
         ELSE rets[r] = Get(obj0, "content")

----------------------------------------------------------------------------
(* The caller of render_content on likes, favorites and shares *)

MaxTargets == 2

TwitterUrl == S("https://twitter.com/u/1")

\* activities by verb, targets, content and url; Absent leaves the key out
CaptionInputs ==
  {Activity(verb, << <<"object", object>>, <<"content", content>>, <<"url", url>> >>) :
     verb \in {"like", "favorite", "share", "post"},
     object \in {Absent} \cup
                {List(ts) : ts \in SeqsUpTo({UrlOnly(UX), RichTarget}, MaxTargets)},
     content \in {Absent, Null, EmptyStr, Hello},
     url \in {Absent, TwitterUrl}}

InitCaption ==
  /\ obj \in CaptionInputs
  /\ obj0 = obj
  /\ args \in [synthesize_content : BOOLEAN, white_space_pre : BOOLEAN]
  /\ mf2 = Null
  /\ mf20 = Null
  /\ rets = <<>>
  /\ page = <<>>
  /\ op = ""
  /\ NoScraping

\* ret = render_content(obj, synthesize_content=..., white_space_pre=...)
RenderActivity ==
  /\ op \in {"", "render_content"}
  /\ Len(rets) < MaxCalls
  /\ rets' = Append(rets, render_content(obj, TRUE, args.synthesize_content, FALSE,
                                         FALSE, args.white_space_pre))
  /\ op' = "render_content"
  /\ UNCHANGED <<obj, obj0, mf2, mf20, args, page>>
  /\ UNCHANGED instagram_vars

NextCaption == RenderActivity

SpecCaption == InitCaption /\ [][NextCaption]_vars

\* the pieces of text only a synthesized caption adds, one per caption
CaptionMarks == {" this.</a>", "</a> by ", "RT <a href=\""}

\* how many captions a rendered content holds
Captions(html) == Cardinality({i \in DOMAIN html : html[i] \in CaptionMarks})

\* the rendered content links to the target
LinksTo(html, target) == \E i \in DOMAIN html : <<html[i]>> = Get(target, "url").s

\* C20: render_content adds a synthesized caption only when synthesize_content
\* is true, the object is a favorite, like or share, it has at least one
\* target and its content is absent, null or empty; then there is exactly one
\* caption, for the first target only; in every other case there is none.
C20_CaptionIffNoContent ==
  (op = "render_content" /\ obj0 \in CaptionInputs)
    => \A r \in DOMAIN rets :
         LET targets == GetList(obj0, "object")
         IN IF /\ args.synthesize_content
               /\ object_type(obj0) \in {S("favorite"), S("like"), S("share")}
               /\ targets # <<>>
               /\ Get(obj0, "content") \in {Absent, Null, EmptyStr}
            THEN /\ Captions(rets[r].s) = 1
                 /\ LinksTo(rets[r].s, targets[1])
                 /\ \A i \in DOMAIN targets :
                      Get(targets[i], "url") # Get(targets[1], "url")
                        => ~LinksTo(rets[r].s, targets[i])
            ELSE Captions(rets[r].s) = 0

\* what the code does (line 955): the caption is withheld whenever the object
\* has a content key, whatever its value
CaptionIffNoContentKey ==
  (op = "render_content" /\ obj0 \in CaptionInputs)
    => \A r \in DOMAIN rets :
         LET targets == GetList(obj0, "object")
         IN IF /\ args.synthesize_content
               /\ object_type(obj0) \in {S("favorite"), S("like"), S("share")}
               /\ targets # <<>>
               /\ ~Has(obj0, "content")
            THEN /\ Captions(rets[r].s) = 1
                 /\ LinksTo(rets[r].s, targets[1])
                 /\ \A i \in DOMAIN targets :
                      Get(targets[i], "url") # Get(targets[1], "url")
                        => ~LinksTo(rets[r].s, targets[i])
            ELSE Captions(rets[r].s) = 0

\* a like of two targets, without a content key, has been rendered
CaptionOfFirstTarget ==
  /\ op = "render_content"
  /\ obj0 = Activity("like", << <<"object", List(<<RichTarget, UrlOnly(UX)>>)>> >>)
  /\ args.synthesize_content
  /\ Captions(rets[1].s) = 1

----------------------------------------------------------------------------
(* The caller of json_to_html *)

\* RSVP items, with and without a name
RsvpItems ==
  {FromPairs(<< <<"type", List(<<S("h-entry")>>)>>,
                <<"properties",
                  FromPairs(<< <<"rsvp", List(<<rsvp>>)>>, <<"name", name>>,
                               <<"in-reply-to", List(<<U3>>)>> >>)>> >>) :
     rsvp \in {S("yes"), S("no"), S("maybe")},
     name \in {Absent, EmptyList, List(<<S("alice")>>), List(<<S("alice"), S("bob")>>)}}

\* entries by the values of their size property
SizeItems ==
  {FromPairs(<< <<"type", List(<<S("h-entry")>>)>>,
                <<"properties",
                  FromPairs(<< <<"content", List(<<Hello>>)>>,
                               <<"size", List(sizes)>> >>)>> >>) :
     sizes \in {<<S("123")>>, <<Num(123)>>, <<S("7MB")>>, <<S("abc")>>, <<EmptyStr>>,
                <<Num(0)>>, <<S("7MB"), S("123")>>, <<S("7MB"), S("abc")>>}}

\* a nested h-cite, as the target of a repost
RepostedCite ==
  FromPairs(<< <<"type", List(<<S("h-cite")>>)>>,
               <<"properties", FromPairs(<< <<"url", List(<<U3>>)>>,
                                            <<"content", List(<<Hello>>)>> >>)>> >>)

\* an invited person
Invitee == FromPairs(<< <<"type", List(<<S("h-card")>>)>>,
                        <<"properties", FromPairs(<< <<"name", List(<<S("bob")>>)>> >>)>> >>)

\* items by their types, content and name, and by what gives them a default
\* name
ContentItems ==
  {FromPairs(<< <<"type", List(type)>>,
                <<"properties",
                  FromPairs(<< <<"content", content>>, <<"name", name>>, <<"url", url>>,
                               <<"rsvp", rsvp>>, <<"invitee", invitee>>,
                               <<"repost-of", repost_of>> >>)>> >>) :
     type \in {<<S("h-entry")>>, <<S("h-cite"), S("h-entry")>>},
     content \in {Absent, List(<<Hello>>), List(<<EmptyStr>>)},
     name \in {Absent, EmptyList, List(<<S("alice")>>)},
     url \in {Absent, List(<<UX>>)},
     rsvp \in {Absent, List(<<S("yes")>>)},
     invitee \in {Absent, List(<<Invitee>>)},
     repost_of \in {Absent, List(<<RepostedCite>>)}}

\* the items object_to_json makes of the AS1 inputs, the RSVP items, the items
\* with sizes and the items with content and names
HtmlItems ==
  {item \in {object_to_json(o, trim, S("h-entry"), Null, TRUE) :
               o \in AS1Inputs, trim \in BOOLEAN} : ~IsRaise(item)}
  \cup RsvpItems \cup SizeItems \cup ContentItems

InitHtml ==
  /\ mf2 \in HtmlItems
  /\ mf20 = mf2
  /\ obj = Null
  /\ obj0 = Null
  /\ args = Null
  /\ rets = <<>>
  /\ page = <<>>
  /\ op = ""
  /\ NoScraping

\* ret = json_to_html(mf2), on the item the caller holds
JsonToHtml ==
  /\ op \in {"", "json_to_html"}
  /\ Len(rets) < MaxCalls
  /\ rets' = Append(rets, json_to_html(mf2, <<>>))
  /\ mf2' = Mf2AfterJsonToHtml(mf2)
  /\ op' = "json_to_html"
  /\ UNCHANGED <<obj, obj0, mf20, args, page>>
  /\ UNCHANGED instagram_vars

NextHtml == JsonToHtml

SpecHtml == InitHtml /\ [][NextHtml]_vars

\* C4: json_to_html leaves its argument unchanged and returns the identical
\* HTML on every call on the same item, RSVP items with a name included.
C4_ItemUnchanged ==
  op = "json_to_html" => (mf2 = mf20 /\ \A i \in DOMAIN rets : rets[i] = rets[1])

\* the values of the item's size property that parse as a byte count
ParsedSizes(item) ==
  LET sizes == GetD(Properties(item), "size", EmptyList).l
  IN SeqFilterIn(sizes, {x \in Range(sizes) : size_to_bytes(x) # Null})

\* the p-size data elements of the HTML
SizeElements(html) ==
  {i \in DOMAIN html : html[i] = "<data class=\"p-size\" value=\""}

\* C25: json_to_html handles every value of the size property without
\* raising: a value that parses as a byte count yields one p-size data element
\* carrying that count, and a value that cannot be parsed yields no size
\* element and no error.
C25_SizeNeverRaises ==
  (op = "json_to_html" /\ mf20 \in SizeItems)
    => \A r \in DOMAIN rets :
         /\ ~IsRaise(rets[r])
         /\ Cardinality(SizeElements(rets[r].s)) = Len(ParsedSizes(mf20))
         /\ \A i \in DOMAIN ParsedSizes(mf20) :
              \E j \in SizeElements(rets[r].s) :
                <<rets[r].s[j + 1]>> = Fmt(size_to_bytes(ParsedSizes(mf20)[i]))

\* what the code does (lines 745-748): `if size` tests the value, not the
\* parsed count, so a non-empty value that does not parse is formatted and
\* raises TypeError, and an integer 0 yields no element
SizeRaisesOnUnparsed ==
  (op = "json_to_html" /\ mf20 \in SizeItems)
    => \A r \in DOMAIN rets :
         LET sizes == GetD(Properties(mf20), "size", EmptyList).l
             given == SeqFilterIn(sizes, {x \in Range(sizes) : Truthy(x)})
         IN IF \E i \in DOMAIN given : size_to_bytes(given[i]) = Null
            THEN rets[r] = Raise("TypeError")
            ELSE /\ ~IsRaise(rets[r])
                 /\ Cardinality(SizeElements(rets[r].s)) = Len(given)

\* an entry of sizes 7MB and 123 has been rendered with two size elements
SizesRendered ==
  /\ op = "json_to_html"
  /\ Get(Properties(mf20), "size") = List(<<S("7MB"), S("123")>>)
  /\ Cardinality(SizeElements(rets[1].s)) = 2

\* the tokens between the first open and the close that follows it
Between(seq, open, close) ==
  LET i == CHOOSE k \in DOMAIN seq :
             seq[k] = open /\ \A m \in 1..(k - 1) : seq[m] # open
      j == CHOOSE k \in (i + 1)..Len(seq) :
             seq[k] = close /\ \A m \in (i + 1)..(k - 1) : seq[m] # close
  IN SubSeq(seq, i + 1, j - 1)

\* the class attribute of the entry's article element
ArticleClasses(html) ==
  Between(html, "<article class=\"", "\">\n  <span class=\"p-uid\">")

\* the class attribute of the entry's content container
ContentClasses(html) == Between(html, "\n  <div class=\"", "\">\n  ")

\* an element of class p-name without text, linked or not
BlankName(html) ==
  \/ Contains(html, <<"<span class=\"", "p-name", "\">", "</span>">>)
  \/ \E i \in DOMAIN html :
       /\ i + 5 <= Len(html)
       /\ SubSeq(html, i, i + 2) = <<"<a class=\"", "p-name u-url", "\" href=\"">>
       /\ SubSeq(html, i + 4, i + 5) = <<"\">", "</a>">>

\* the entry's HTML has the article classes of the item's types and content
\* classes that follow from has_content and no_name
EntryClasses(item, html, has_content, no_name) ==
  /\ ArticleClasses(html) = JoinStrs(" ", GetD(item, "type", EmptyList).l)
  /\ Has(Properties(item), "repost-of")
       => Contains(html, <<"<article class=\"", "u-", "repost-of", " ", "h-cite",
                           "\">\n  <span class=\"p-uid\">">>)
  /\ ContentClasses(html) =
       (IF has_content
        THEN <<"e-content">> \o (IF no_name THEN <<" ", "p-name">> ELSE <<>>)
        ELSE <<>>)
  /\ (~has_content /\ no_name) => BlankName(html)

\* C26 as stated: the article's class attribute is the parent classes followed
\* by the item's types; the content container has class e-content exactly when
\* the content is non-empty, plus p-name exactly when the content is non-empty
\* and the item has no name; with empty content and no name a blank p-name is
\* emitted.
C26_EntryClasses ==
  (op = "json_to_html" /\ mf20 \in ContentItems)
    => \A r \in DOMAIN rets :
         EntryClasses(mf20, rets[r].s,
                      Truthy(Get(first_props(Properties(mf20)), "content")),
                      ~Truthy(Get(Properties(mf20), "name")))

\* C26 amended: the same, where an RSVP or an invitation without a name counts
\* as named, by the default name it is given first.
C26_EntryClassesAfterNaming ==
  (op = "json_to_html" /\ mf20 \in ContentItems)
    => \A r \in DOMAIN rets :
         EntryClasses(mf20, rets[r].s,
                      Truthy(Get(first_props(Properties(mf20)), "content")),
                      /\ ~Truthy(Get(Properties(mf20), "name"))
                      /\ ~Has(Properties(mf20), "rsvp")
                      /\ ~Has(Properties(mf20), "invitee"))

\* the entry with content hello and nothing else has been rendered as
\* <article class="h-entry"> with an e-content p-name container
C26_Witness ==
  /\ op = "json_to_html"
  /\ mf20 = FromPairs(<< <<"type", List(<<S("h-entry")>>)>>,
                          <<"properties", FromPairs(<< <<"content", List(<<Hello>>)>> >>)>> >>)
  /\ ArticleClasses(rets[1].s) = <<"h-entry">>
  /\ Contains(rets[1].s, <<"\n  <div class=\"", "e-content", " ", "p-name", "\">\n  ",
                            "\n  ", "h", "e", "l", "l", "o", "\n  </div>\n">>)

\* an entry without content and without a name has been rendered with a blank
\* p-name
C26_WitnessBlank ==
  /\ op = "json_to_html"
  /\ mf20 \in ContentItems
  /\ ~Has(Properties(mf20), "content") /\ ~Has(Properties(mf20), "name")
  /\ ~Has(Properties(mf20), "rsvp") /\ ~Has(Properties(mf20), "invitee")
  /\ ContentClasses(rets[1].s) = <<>>
  /\ BlankName(rets[1].s)

----------------------------------------------------------------------------
(* The caller of object_to_html *)

\* lines 654-655, given the item object_to_json returned
HtmlOf(item, parent_props) ==
  IF IsRaise(item) THEN item ELSE json_to_html(item, parent_props)

\* object_to_html(obj, parent_props, synthesize_content)
object_to_html(o, parent_props, synthesize_content) ==
  HtmlOf(object_to_json(o, TRUE, S("h-entry"), Null, synthesize_content), parent_props)

InitO2H ==
  /\ obj \in AS1Inputs
  /\ obj0 = obj
  /\ args \in [synthesize_content : BOOLEAN]
  /\ mf2 = Null
  /\ mf20 = Null
  /\ rets = <<>>
  /\ page = <<>>
  /\ op = ""
  /\ NoScraping

\* ret = object_to_html(obj, synthesize_content=...); mf20 keeps the item
\* the call hands from object_to_json to json_to_html
ObjectToHtml ==
  /\ op = ""
  /\ rets' = <<object_to_html(obj, <<>>, args.synthesize_content)>>
  /\ mf20' = object_to_json(obj, TRUE, S("h-entry"), Null, args.synthesize_content)
  /\ obj' = ObjAfterObjectToJson(obj, Null)
  /\ op' = "object_to_html"
  /\ UNCHANGED <<obj0, mf2, args, page>>
  /\ UNCHANGED instagram_vars

NextO2H == ObjectToHtml

SpecO2H == InitO2H /\ [][NextO2H]_vars

\* the like activity of the scenario
LikeScenario == Activity("like", << <<"object", UrlOnly(UX)>> >>)

\* <a class="u-like-of" href="http://x/1"></a>
LikeOfLink == <<"<a class=\"u-", "like-of", "\" href=\"", UX.s[1], "\"></a>">>

\* the caption of a like of a bare URL, with the given wording
LikeCaption(wording) == Str(<<"<a href=\"", UX.s[1], "\">", wording, " this.</a>">>)

\* the html of the item's content property, or None
ContentHtml(item) ==
  IF Truthy(Get(Properties(item), "content")) /\ IsDict(Get(Properties(item), "content").l[1])
  THEN Get(Get(Properties(item), "content").l[1], "html")
  ELSE Null

\* C11 as stated: the like activity converts to like-of == [U], its HTML
\* contains <a class="u-like-of" href="U"></a>, and with synthesize_content
\* the content is "Likes this." as an anchor to U.
C11_LikesThisCapitalised ==
  (op = "object_to_html" /\ obj0 = LikeScenario)
    => /\ Get(Properties(mf20), "like-of") = List(<<UX>>)
       /\ Contains(rets[1].s, LikeOfLink)
       /\ args.synthesize_content => ContentHtml(mf20) = LikeCaption("Likes")

\* C11 amended: the like activity converts to like-of == [U], its HTML
\* contains <a class="u-like-of" href="U"></a>, and with synthesize_content
\* the content is "likes this." (lower case) as an anchor to U, which the HTML
\* contains too; without synthesize_content the item has no content.
C11_LikeActivity ==
  (op = "object_to_html" /\ obj0 = LikeScenario)
    => /\ Get(Properties(mf20), "like-of") = List(<<UX>>)
       /\ ~IsRaise(rets[1])
       /\ Contains(rets[1].s, LikeOfLink)
       /\ args.synthesize_content =>
            /\ ContentHtml(mf20) = LikeCaption("likes")
            /\ Contains(rets[1].s, LikeCaption("likes").s)
       /\ ~args.synthesize_content => ~Has(Properties(mf20), "content")

\* the like activity has been rendered with a synthesized caption
C11_Witness ==
  /\ op = "object_to_html"
  /\ obj0 = LikeScenario
  /\ args.synthesize_content
  /\ ContentHtml(mf20) = LikeCaption("likes")
  /\ Contains(rets[1].s, LikeOfLink)

----------------------------------------------------------------------------
(* The callers of the four entry points on missing and empty input *)

\* null, the empty mapping, and values that are not mappings
EmptyInputs ==
  {Null, EmptyDict, EmptyStr, S("abc"), EmptyList, List(<<S("abc")>>), Num(0), Num(5)}

\* an h-card and an entry, as MF2 items
CardItem ==
  FromPairs(<< <<"type", List(<<S("h-card")>>)>>,
               <<"properties", FromPairs(<< <<"name", List(<<S("alice")>>)>> >>)>> >>)

EntryItem ==
  FromPairs(<< <<"type", List(<<S("h-entry")>>)>>,
               <<"properties", FromPairs(<< <<"content", List(<<Hello>>)>> >>)>> >>)

\* the empty inputs, and for contrast inputs that carry something
EntryInputs == EmptyInputs \cup {SimpleNote, CardItem, EntryItem}

InitEmpty ==
  /\ obj \in EntryInputs
  /\ obj0 = obj
  /\ mf2 = obj
  /\ mf20 = obj
  /\ args \in O2JArgs
  /\ rets = <<>>
  /\ page = <<>>
  /\ op = ""
  /\ NoScraping

\* ret = object_to_json(obj, **args)
ConvertToJson ==
  /\ op = ""
  /\ rets' = <<object_to_json(obj, args.trim_nulls, args.entry_class,
                              args.default_object_type, args.synthesize_content)>>
  /\ op' = "object_to_json"
  /\ UNCHANGED <<obj, obj0, mf2, mf20, args, page>>
  /\ UNCHANGED instagram_vars

\* ret = json_to_object(mf2)
ConvertToObject ==
  /\ op = ""
  /\ rets' = <<json_to_object(mf2, Null, Null)>>
  /\ op' = "json_to_object"
  /\ UNCHANGED <<obj, obj0, mf2, mf20, args, page>>
  /\ UNCHANGED instagram_vars

\* ret = json_to_html(mf2); a value that is neither empty nor a mapping has
\* no get method (line 676)
RenderItem ==
  /\ op = ""
  /\ rets' = <<IF Truthy(mf2) /\ ~IsDict(mf2) THEN Raise("AttributeError")
               ELSE json_to_html(mf2, <<>>)>>
  /\ op' = "json_to_html"
  /\ UNCHANGED <<obj, obj0, mf2, mf20, args, page>>
  /\ UNCHANGED instagram_vars

\* ret = hcard_to_html(mf2); a value that is neither empty nor a mapping has
\* no get method (line 830)
RenderCard ==
  /\ op = ""
  /\ rets' = <<IF Truthy(mf2) /\ ~IsDict(mf2) THEN Raise("AttributeError")
               ELSE Str(hcard_to_html(mf2, <<>>))>>
  /\ op' = "hcard_to_html"
  /\ UNCHANGED <<obj, obj0, mf2, mf20, args, page>>
  /\ UNCHANGED instagram_vars

NextEmpty == ConvertToJson \/ ConvertToObject \/ RenderItem \/ RenderCard

SpecEmpty == InitEmpty /\ [][NextEmpty]_vars

\* C13: object_to_json and json_to_object return {} for null, an empty
\* mapping and any value that is not a mapping; json_to_html and
\* hcard_to_html return '' for null and an empty mapping; none of them raises.
C13_EmptyInEmptyOut ==
  /\ (op \in {"object_to_json", "json_to_object"} /\ (~Truthy(obj0) \/ ~IsDict(obj0)))
       => rets[1] = EmptyDict
  /\ (op \in {"json_to_html", "hcard_to_html"} /\ obj0 \in {Null, EmptyDict})
       => rets[1] = EmptyStr

\* object_to_json has returned {} for a string
C13_Witness ==
  /\ op = "object_to_json"
  /\ obj0 = S("abc")
  /\ rets = <<EmptyDict>>

\* an HTML renderer has returned '' for the empty mapping
C13_WitnessHtml ==
  /\ op = "hcard_to_html"
  /\ obj0 = EmptyDict
  /\ rets = <<EmptyStr>>

----------------------------------------------------------------------------
(* instagram.py: Instagram.media_to_object *)

\* OBJECT_TYPES.get(media.get('type', 'image'), 'photo')
OBJECT_TYPES(type) == IF type = S("video") THEN S("video") ELSE S("photo")

\* the variants of a media: a dict from version name to variant, kept as the
\* sequence of its <<version, variant>> items in insertion order
Values(items) == [i \in DOMAIN items |-> items[i][2]]

\* the variant stored under version, or None
Version(items, version) ==
  IF \E i \in DOMAIN items : items[i][1] = version
  THEN items[CHOOSE i \in DOMAIN items : items[i][1] = version][2]
  ELSE Null

RECURSIVE SortedByWidth(_)

\* mutant of SortedByWidth: the variants in the order the media gives them
SortedByWidthUnsorted(variants) ==
  variants

\* sorted(variants, key=operator.itemgetter('width'), reverse=True): widest
\* first, variants of equal width in their original order
SortedByWidth(variants) ==
  IF variants = <<>> THEN <<>>
  ELSE LET i == CHOOSE j \in DOMAIN variants :
                  /\ \A k \in DOMAIN variants :
                       Get(variants[k], "width").n <= Get(variants[j], "width").n
                  /\ \A k \in 1..(j - 1) :
                       Get(variants[k], "width").n < Get(variants[j], "width").n
       IN <<variants[i]>> \o
          SortedByWidth(SubSeq(variants, 1, i - 1) \o SubSeq(variants, i + 1, Len(variants)))

\* lines 616-620: the alt text, unless it is one Instagram generated
WithAltText(variants, alt) ==
  IF Truthy(alt)
  THEN [i \in DOMAIN variants |-> Put(variants[i], "displayName", alt)]
  ELSE variants

\* lines 622-632: the first of the versions the media has
FirstVersion(items, versions) ==
  LET found == {i \in DOMAIN versions : Truthy(Version(items, versions[i]))}
  IN IF found = {} THEN Absent
     ELSE FromPairs(<< <<"url",
            Get(Version(items, versions[CHOOSE i \in found : \A j \in found : i <= j]),
                "url")>> >>)

\* Instagram.media_to_object(media): the fields made of the media's type,
\* link, images, videos and alt text
media_to_object(media) ==
  postprocess_object(FromPairs(<<
    <<"objectType", OBJECT_TYPES(media.type)>>,
    <<"url", media.link>>,
    <<"attachments", List(<<FromPairs(<<
        <<"objectType", IF media.has_videos THEN S("video") ELSE S("image")>>,
        <<"url", media.link>>,
        <<"image", List(WithAltText(SortedByWidth(Values(media.images)),
                                    media.accessibility_caption))>>,
        <<"stream", List(SortedByWidth(Values(media.videos)))>> >>)>>)>>,
    <<"image", FirstVersion(media.images,
                            <<"standard_resolution", "low_resolution", "thumbnail">>)>>,
    <<"stream", FirstVersion(media.videos,
                             <<"standard_resolution", "low_resolution",
                               "low_bandwidth">>)>> >>))

----------------------------------------------------------------------------
(* The caller of Instagram.media_to_object *)

MaxVariants == 2

Widths == {100, 300, 600}

\* a variant of the given version and width
Variant(version, width) ==
  FromPairs(<< <<"url", Str(<<"http://i/", version>>)>>, <<"width", Num(width)>> >>)

\* the dicts of at most n variants over the versions, in every insertion order
RECURSIVE VariantItems(_, _)
VariantItems(versions, n) ==
  IF n = 0 THEN {<<>>}
  ELSE LET shorter == VariantItems(versions, n - 1)
       IN shorter \cup
          {Append(q, <<v, Variant(v, w)>>) :
             q \in {x \in shorter : Len(x) = n - 1},
             v \in versions, w \in Widths}

\* items whose version names are distinct, as the keys of a dict are
DistinctKeys(items) ==
  \A i, j \in DOMAIN items : items[i][1] = items[j][1] => i = j

\* has_videos says whether the media has a 'videos' key at all
Medias ==
  {m \in [type : {S("image"), S("video")},
          link : {UX},
          images : {q \in VariantItems({"standard_resolution", "low_resolution",
                                        "thumbnail"}, MaxVariants) : DistinctKeys(q)},
          has_videos : BOOLEAN,
          videos : {q \in VariantItems({"standard_resolution", "low_bandwidth"},
                                       MaxVariants) : DistinctKeys(q)},
          accessibility_caption : {Null, S("alice")}] :
     /\ m.has_videos \/ m.videos = <<>>
     /\ m.has_videos <=> m.type = S("video")}

InitMedia ==
  /\ obj \in Medias
  /\ obj0 = obj
  /\ mf2 = Null
  /\ mf20 = Null
  /\ args = Null
  /\ rets = <<>>
  /\ page = <<>>
  /\ op = ""
  /\ NoScraping

\* ret = self.media_to_object(media)
MediaToObject ==
  /\ op = ""
  /\ rets' = <<media_to_object(obj)>>
  /\ op' = "media_to_object"
  /\ UNCHANGED <<obj, obj0, mf2, mf20, args, page>>
  /\ UNCHANGED instagram_vars

NextMedia == MediaToObject

SpecMedia == InitMedia /\ [][NextMedia]_vars

\* the attachment of a converted media
Attachment(o) == Get(o, "attachments").l[1]

\* the widths of a list of variants, in order
WidthsOf(variants) == [i \in DOMAIN variants |-> Get(variants[i], "width").n]

\* widths never increase along the list
Descending(widths) == \A i, j \in DOMAIN widths : i < j => widths[i] >= widths[j]

\* the list holds exactly the given variants, alt text aside
SameVariants(list, variants) ==
  /\ Len(list) = Len(variants)
  /\ {Del(list[i], "displayName") : i \in DOMAIN list} = Range(variants)

\* C15: the attachment's image list and stream list hold the media's image
\* and video variants ordered by width descending, so the first element of
\* each has the maximal width; widths 100 and 600 give the 600 entry first.
C15_WidestFirst ==
  op = "media_to_object" =>
    LET image == GetD(Attachment(rets[1]), "image", EmptyList).l
        stream == GetD(Attachment(rets[1]), "stream", EmptyList).l
    IN /\ SameVariants(image, Values(obj0.images))
       /\ Descending(WidthsOf(image))
       /\ SameVariants(stream, Values(obj0.videos))
       /\ Descending(WidthsOf(stream))

\* variants given as width 100 then width 600 have been converted, images
\* and videos alike
C15_Witness ==
  /\ op = "media_to_object"
  /\ WidthsOf(Values(obj0.images)) = <<100, 600>>
  /\ WidthsOf(Values(obj0.videos)) = <<100, 600>>
  /\ WidthsOf(Get(Attachment(rets[1]), "image").l) = <<600, 100>>
  /\ WidthsOf(Get(Attachment(rets[1]), "stream").l) = <<600, 100>>

----------------------------------------------------------------------------
(* The callers of json_to_object and html_to_activities on parsed MF2 *)

MaxItems == 2

GithubRepo == S("https://github.com/o/r")
GithubIssues == S("https://github.com/o/r/issues")

\* MF2 items by type and by the properties the conversion branches on
Mf2Item(type, in_reply_to, tag_of, rsvp, category) ==
  FromPairs(<< <<"type", List(type)>>,
               <<"properties",
                 FromPairs(<< <<"uid", List(<<Id1>>)>>,
                              <<"url", List(<<UX>>)>>,
                              <<"content", List(<<Hello>>)>>,
                              <<"in-reply-to", in_reply_to>>,
                              <<"tag-of", tag_of>>,
                              <<"rsvp", rsvp>>,
                              <<"category", category>> >>)>> >>)

Mf2Types ==
  {<<S("h-entry")>>, <<S("h-event")>>, <<S("h-cite")>>, <<S("h-card")>>,
   <<S("h-entry"), S("p-location")>>}

Mf2Items ==
  {Mf2Item(type, in_reply_to, tag_of, rsvp, category) :
     type \in Mf2Types,
     in_reply_to \in {Absent, EmptyList, List(<<U2>>), List(<<GithubRepo>>),
                      List(<<U2, GithubIssues>>)},
     tag_of \in {Absent, List(<<U3>>)},
     rsvp \in {Absent, List(<<S("yes")>>)},
     category \in {Absent, List(<<S("tag")>>)}}

\* entries by the property their type is discovered from and by their rsvp
VerbItems ==
  {FromPairs(<< <<"type", List(<<S("h-entry")>>)>>,
                <<"properties",
                  FromPairs(<< <<"uid", List(<<Id1>>)>>,
                               <<of, List(<<U2>>)>>,
                               <<"rsvp", rsvp>> >>)>> >>) :
     of \in {"name", "like-of", "repost-of", "follow-of", "bookmark-of", "tag-of"},
     rsvp \in {Absent, EmptyList, List(<<EmptyStr>>), List(<<S("yes")>>),
               List(<<S("no")>>), List(<<S("maybe"), S("yes")>>)}}

\* a nested h-cite, as the value of a property
Cite(u) == FromPairs(<< <<"type", List(<<S("h-cite")>>)>>,
                        <<"properties", FromPairs(<< <<"url", List(<<u>>)>> >>)>> >>)

\* entries by the properties an activity's targets are read from
TargetItems ==
  {FromPairs(<< <<"type", List(<<S("h-entry")>>)>>,
                <<"properties",
                  FromPairs(<< <<"uid", List(<<Id1>>)>>,
                               <<"follow-of", follow_of>>,
                               <<"like", like>>,
                               <<"like-of", like_of>>,
                               <<"in-reply-to", in_reply_to>>,
                               <<"bookmark-of", bookmark_of>>,
                               <<"tag-of", tag_of>>,
                               <<"category", category>> >>)>> >>) :
     follow_of \in {Absent, List(<<U1>>)},
     like \in {Absent, List(<<U2>>)},
     like_of \in {Absent, List(<<U2>>), List(<<U2, U3>>), List(<<Cite(U3)>>)},
     in_reply_to \in {Absent, List(<<U2>>), List(<<UX>>)},
     bookmark_of \in {Absent, List(<<U3>>), List(<<U3, U3>>), List(<<U3, U1>>)},
     tag_of \in {Absent, List(<<U3>>)},
     category \in {Absent, List(<<S("tag")>>)}}

\* in-reply-to URLs around the GitHub pattern
GithubUrls ==
  {GithubRepo, GithubIssues, S("https://github.com/o/r/"),
   S("https://github.com/o/r/issues/"), S("http://github.com/o/r"),
   S("https://github.com/o/r/issues/1"), S("https://github.com/o"),
   S("https://githubxcom/o/r")}

\* items by their types and by the properties their classification reads
ClassItems ==
  {FromPairs(<< <<"type", List(type)>>,
                <<"properties",
                  FromPairs(<< <<"uid", List(<<Id1>>)>>,
                               <<"tag-of", tag_of>>,
                               <<"follow-of", follow_of>>,
                               <<"bookmark-of", bookmark_of>>,
                               <<"like-of", like_of>>,
                               <<"photo", photo>>,
                               <<"in-reply-to", in_reply_to>> >>)>> >>) :
     type \in {<<S("h-entry")>>, <<S("h-geo")>>, <<S("h-entry"), S("p-location")>>},
     tag_of \in {Absent, EmptyList},
     follow_of \in {Absent, EmptyList, List(<<U1>>)},
     bookmark_of \in {Absent, List(<<U3>>)},
     like_of \in {Absent, List(<<U2>>)},
     photo \in {Absent, List(<<U1>>)},
     in_reply_to \in {Absent, List(<<U2>>), List(<<Cite(GithubRepo)>>)} \cup
                     {List(<<u>>) : u \in GithubUrls}}

\* the items of the pages: entries that convert, one that is not an entry,
\* and entries that combine in-reply-to and tag-of
PageItems ==
  { Mf2Item(<<S("h-entry")>>, Absent, Absent, Absent, Absent),
    Mf2Item(<<S("h-event")>>, List(<<U2>>), Absent, Absent, Absent),
    Mf2Item(<<S("h-cite")>>, Absent, List(<<U3>>), Absent, List(<<S("tag")>>)),
    Mf2Item(<<S("h-card")>>, Absent, Absent, Absent, Absent),
    Mf2Item(<<S("h-entry")>>, List(<<U2>>), List(<<U3>>), Absent, List(<<S("tag")>>)),
    Mf2Item(<<S("h-entry")>>, List(<<U2>>), List(<<U3>>), List(<<S("yes")>>), Absent) }

Pages == SeqsUpTo(PageItems, MaxItems)

InitJ2O ==
  /\ \/ mf2 \in Mf2Items \cup VerbItems \cup TargetItems \cup ClassItems /\ page = <<>>
     \/ mf2 = Null /\ page \in Pages
  /\ mf20 = mf2
  /\ obj = Null
  /\ obj0 = Null
  /\ args = Null
  /\ rets = <<>>
  /\ op = ""
  /\ NoScraping

\* ret = json_to_object(mf2)
ItemToObject ==
  /\ op = ""
  /\ mf2 # Null
  /\ \E found \in FoundAuthors :
       rets' = <<json_to_object(mf2, Null, found)>>
  /\ op' = "json_to_object"
  /\ UNCHANGED <<obj, obj0, mf2, mf20, args, page>>
  /\ UNCHANGED instagram_vars

\* ret = html_to_activities(html), given the items the page parses to
HtmlToActivities ==
  /\ op = ""
  /\ mf2 = Null
  /\ rets' = <<html_to_activities(page, Null)>>
  /\ op' = "html_to_activities"
  /\ UNCHANGED <<obj, obj0, mf2, mf20, args, page>>
  /\ UNCHANGED instagram_vars

NextJ2O == ItemToObject \/ HtmlToActivities

SpecJ2O == InitJ2O /\ [][NextJ2O]_vars

\* C6: for every item with a non-empty in-reply-to and a tag-of property,
\* whatever its in-reply-to URLs and its other properties (rsvp included),
\* json_to_object raises NotImplementedError.
C6_InReplyToWithTagOf ==
  (/\ op = "json_to_object"
   /\ Truthy(Get(Properties(mf2), "in-reply-to"))
   /\ Has(Properties(mf2), "tag-of"))
    => rets[1] = Raise("NotImplementedError")

\* the activity of one converted entry, or nothing when its conversion raised
ConvertedEntry(o) ==
  IF IsRaise(o) THEN <<>>
  ELSE <<FromPairs(<< <<"object", Put(o, "content_is_html", S("True"))>> >>)>>

\* C12: for every item whose first rsvp value v is non-empty, json_to_object
\* returns an object whose verb is 'rsvp-' + v, whatever verb the table gives
\* for the item's type; an item without an rsvp value that converts gets
\* exactly the table's verb (none when the table has none).
C12_RsvpOverridesVerb ==
  op = "json_to_object" =>
    IF Truthy(Get(first_props(Properties(mf2)), "rsvp"))
    THEN /\ ~IsRaise(rets[1])
         /\ Get(rets[1], "verb") =
              S("rsvp-" \o Get(first_props(Properties(mf2)), "rsvp").s[1])
    ELSE IsRaise(rets[1]) \/
         Get(rets[1], "verb") = MF2_TO_AS_TYPE_VERB(Mf2TypeOf(mf2))[2]

\* a follow with an rsvp of no has been converted to verb rsvp-no, where the
\* table gives follow
C12_Witness ==
  /\ op = "json_to_object"
  /\ Has(Properties(mf2), "follow-of")
  /\ Get(Properties(mf2), "rsvp") = List(<<S("no")>>)
  /\ MF2_TO_AS_TYPE_VERB(Mf2TypeOf(mf2))[2] = S("follow")
  /\ Get(rets[1], "verb") = S("rsvp-no")

\* a follow whose rsvp value is empty has been converted to the table's verb
C12_WitnessNoRsvp ==
  /\ op = "json_to_object"
  /\ Get(Properties(mf2), "rsvp") = List(<<EmptyStr>>)
  /\ Get(rets[1], "verb") = S("follow")

\* the properties an activity's targets are read from, in the code's order
TargetFields == <<"follow-of", "like", "like-of", "repost", "repost-of", "in-reply-to",
                  "invitee">>

\* the targets the item names: each value of TargetFields once, a nested item
\* converted and a URL as {url: u}, then a bookmark object per bookmark-of URL
ExpectedTargets(props) ==
  LET values == Flatten([i \in DOMAIN TargetFields |->
                          GetD(props, TargetFields[i], EmptyList).l])
      urls == GetD(props, "bookmark-of", EmptyList).l
  IN Uniquify([i \in DOMAIN values |->
                IF IsDict(values[i]) THEN json_to_object(values[i], Null, Null)
                ELSE FromPairs(<< <<"url", values[i]>> >>)]) \o
     [i \in DOMAIN urls |->
       FromPairs(<< <<"objectType", S("bookmark")>>, <<"targetUrl", urls[i]>> >>)]

\* the activity's object is exactly these targets: none, one bare, or a list
ObjectIs(o, expected) ==
  IF expected = <<>> THEN ~Has(o, "object")
  ELSE IF Len(expected) = 1 THEN Get(o, "object") = expected[1]
  ELSE Get(o, "object") = List(expected)

C21_WitnessBare ==
  /\ op = "json_to_object"
  /\ mf2 \in TargetItems
  /\ Get(rets[1], "objectType") = S("activity")
  /\ Get(rets[1], "object") = UrlOnly(U2)

\* the type the claimed precedence gives the item
ClassifiedAs(item) ==
  LET types == Range(GetD(item, "type", EmptyList).l)
      props == Properties(item)
  IN CASE S("h-geo") \in types \/ S("p-location") \in types -> "location"
       [] OTHER ->
          CASE Has(props, "tag-of") -> "tag"
            [] OTHER ->
               CASE Has(props, "follow-of") -> "follow"
                 [] OTHER ->
                    CASE Has(props, "bookmark-of") -> "bookmark"
                      [] OTHER ->
                         post_type_discovery(Put(item, "properties", Del(props, "photo")))

\* http(s)://github.com/<owner>/<repo>, optionally followed by /issues and an
\* optional trailing slash
OfRepoForm(url) ==
  LET pieces == UrlPieces(url)
  IN /\ Len(pieces) >= 9
     /\ SubSeq(pieces, 1, 6) \in
          {<<scheme, "://", "github", ".", "com", "/">> : scheme \in {"http", "https"}}
     /\ pieces[7] \notin {"/", "/issues"}
     /\ pieces[8] = "/"
     /\ pieces[9] \notin {"/", "/issues"}
     /\ SubSeq(pieces, 10, Len(pieces)) \in
          {<<>>, <<"/issues">>, <<"/">>, <<"/issues", "/">>}

\* the objectType and verb of o are those of the table for the claimed type,
\* but objectType issue exactly when is_issue
ClassifiedBy(item, o, is_issue) ==
  LET row == MF2_TO_AS_TYPE_VERB(ClassifiedAs(item))
  IN /\ GetD(o, "objectType", Null) = (IF is_issue THEN S("issue") ELSE row[1])
     /\ GetD(o, "verb", Null) = row[2]

\* C22: json_to_object classifies an item as a place for type h-geo or
\* p-location, otherwise as a tag activity for tag-of, otherwise a follow
\* activity for follow-of, otherwise a bookmark for bookmark-of, otherwise by
\* the type table for the post-type-discovery result on the item without its
\* photo; and the objectType is issue exactly for items with an in-reply-to
\* URL http(s)://github.com/<owner>/<repo>[/issues][/].
C22_Classification ==
  (op = "json_to_object" /\ mf2 \in ClassItems /\ ~IsRaise(rets[1]))
    => LET urls == get_string_urls(GetD(Properties(mf2), "in-reply-to", EmptyList).l)
       IN ClassifiedBy(mf2, rets[1], \E i \in DOMAIN urls : OfRepoForm(urls[i]))

\* what the code does: the same, with the pattern of line 440 deciding the
\* issue, whose unescaped '.' stands for any character
ClassificationByPattern ==
  (op = "json_to_object" /\ mf2 \in ClassItems /\ ~IsRaise(rets[1]))
    => LET urls == get_string_urls(GetD(Properties(mf2), "in-reply-to", EmptyList).l)
       IN ClassifiedBy(mf2, rets[1], \E i \in DOMAIN urls : IsGithubRepoUrl(urls[i]))

\* an item with tag-of and follow-of has been converted to a tag activity
ClassifiedTag ==
  /\ op = "json_to_object"
  /\ mf2 \in ClassItems
  /\ Has(Properties(mf2), "tag-of") /\ Has(Properties(mf2), "follow-of")
  /\ ~IsRaise(rets[1])
  /\ Get(rets[1], "verb") = S("tag")

RECURSIVE Converted(_)
\* one activity, in page order, for every entry of the page that converts
Converted(items) ==
  IF items = <<>> THEN <<>>
  ELSE (IF Range(GetD(Head(items), "type", EmptyList).l) \cap
             {S("h-entry"), S("h-event"), S("h-cite")} = {}
        THEN <<>>
        ELSE ConvertedEntry(json_to_object(Head(items), Null, Null)))
       \o Converted(Tail(items))

\* C7: html_to_activities returns, in page order, one activity for every item
\* that can be converted, even when another item of the page fails conversion.
C7_FailureIsLocal ==
  op = "html_to_activities" => rets[1] = List(Converted(page))

----------------------------------------------------------------------------
(* The caller of json_to_object with an actor *)

\* a nested item that converts to nothing: its type, checkin, is not in the
\* type table and it has no other property
CheckinItem ==
  FromPairs(<< <<"properties", FromPairs(<< <<"checkin", List(<<U3>>)>> >>)>> >>)

\* the actor argument
Carol == FromPairs(<< <<"objectType", S("person")>>, <<"displayName", S("carol")>> >>)

\* items by their author values and by the properties that decide whether
\* they convert to an activity
AuthorItems ==
  {FromPairs(<< <<"type", List(<<S("h-entry")>>)>>,
                <<"properties",
                  FromPairs(<< <<"uid", List(<<Id1>>)>>,
                               <<"author", author>>,
                               <<"like-of", like_of>>,
                               <<"tag-of", tag_of>>,
                               <<"category", category>> >>)>> >>) :
     author \in {Absent, EmptyList, List(<<S("alice")>>), List(<<CardItem>>),
                 List(<<CardItem, S("bob")>>), List(<<S("bob"), CardItem>>),
                 List(<<CheckinItem>>)},
     like_of \in {Absent, List(<<U2>>)},
     tag_of \in {Absent, List(<<U3>>)},
     category \in {Absent, List(<<S("tag")>>)}}

\* args.found is what the authorship algorithm answers for the item
InitAuthor ==
  /\ mf2 \in AuthorItems
  /\ mf20 = mf2
  /\ args \in [actor : {Null, EmptyDict, Carol}, found : FoundAuthors]
  /\ obj = Null
  /\ obj0 = Null
  /\ rets = <<>>
  /\ page = <<>>
  /\ op = ""
  /\ NoScraping

\* ret = json_to_object(mf2, actor=actor)
ItemToObjectWithActor ==
  /\ op = ""
  /\ rets' = <<json_to_object(mf2, args.actor, args.found)>>
  /\ op' = "json_to_object"
  /\ UNCHANGED <<obj, obj0, mf2, mf20, args, page>>
  /\ UNCHANGED instagram_vars

NextAuthor == ItemToObjectWithActor

SpecAuthor == InitAuthor /\ [][NextAuthor]_vars

\* the author of the result: its actor when it is an activity, else its author
AuthorOf(o) ==
  IF Get(o, "objectType") = S("activity") THEN GetD(o, "actor", Null)
  ELSE GetD(o, "author", Null)

\* the person the authorship algorithm's answer is turned into
FoundPerson(found) ==
  FromPairs(<< <<"objectType", S("person")>>, <<"url", Get(found, "url")>>,
               <<"displayName", Get(found, "name")>>,
               <<"image", List(<<FromPairs(<< <<"url", Get(found, "photo")>> >>)>>)>> >>)

\* v as it is found in a result, whose null and empty leaves are pruned
Pruned(v) == IF TrimNulls(v) \in NULLS THEN Null ELSE TrimNulls(v)

\* the item's first author value is a nested item
HasOwnAuthor(item) ==
  LET first == Get(first_props(Properties(item)), "author")
  IN first # Absent /\ IsDict(first)

\* C23: the author of json_to_object's result is the item's own author when
\* its first author value is a nested item; otherwise the authorship
\* algorithm's result when it finds one; otherwise the actor argument, which
\* is never used when the item has its own author.
C23_AuthorPrecedence ==
  (op = "json_to_object" /\ mf2 \in AuthorItems /\ ~IsRaise(rets[1]))
    => AuthorOf(rets[1]) =
         Pruned(IF HasOwnAuthor(mf2)
                THEN json_to_object(Get(first_props(Properties(mf2)), "author"), Null, Null)
                ELSE IF args.found # Null THEN FoundPerson(args.found)
                ELSE args.actor)

\* what the code does (lines 410-411): the actor argument also replaces an own
\* author whose conversion is empty
AuthorPrecedenceUnlessEmpty ==
  (op = "json_to_object" /\ mf2 \in AuthorItems /\ ~IsRaise(rets[1]))
    => AuthorOf(rets[1]) =
         Pruned(IF HasOwnAuthor(mf2) /\
                   json_to_object(Get(first_props(Properties(mf2)), "author"), Null, Null)
                     # EmptyDict
                THEN json_to_object(Get(first_props(Properties(mf2)), "author"), Null, Null)
                ELSE IF ~HasOwnAuthor(mf2) /\ args.found # Null
                THEN FoundPerson(args.found)
                ELSE args.actor)

\* an entry with a nested author has been converted with an actor argument and
\* an answer of the authorship algorithm: the author is the nested one
OwnAuthorWins ==
  /\ op = "json_to_object"
  /\ Get(Properties(mf2), "author") = List(<<CardItem, S("bob")>>)
  /\ args.actor = Carol
  /\ args.found # Null
  /\ Get(Get(rets[1], "author"), "displayName") = S("alice")

----------------------------------------------------------------------------
(* instagram.py: Instagram.get_activities_response when scraping *)

\* RATE_LIMIT_BACKOFF = datetime.timedelta(seconds=5 * 60), in seconds
RATE_LIMIT_BACKOFF == 5 * 60

\* requests.HTTPError with the status code util.interpret_http_exception finds
HTTPError(code) == [t |-> "raise", e |-> "HTTPError", code |-> code]

\* datetime.datetime.now(), as seconds since the module was imported; a
\* datetime is true whatever its value
Datetime(n) == [t |-> "datetime", n |-> n]

\* the status codes of the failed requests of the model
StatusCodes == {"302", "401", "429", "503", "500"}

\* mutant of Waiting: the backoff also covers the instant it ends
WaitingInclusive(now, last) == now <= last.n + RATE_LIMIT_BACKOFF

\* lines 207-208: now < _last_rate_limited + RATE_LIMIT_BACKOFF
Waiting(now, last) == now < last.n + RATE_LIMIT_BACKOFF

\* line 221: not ignore_rate_limit and code in ('302', '401', '429', '503')
Remembered(ignore_rate_limit, e) ==
  ~ignore_rate_limit /\ e.code \in {"302", "401", "429", "503"}

\* a thread that is not inside get_activities_response
Idle == [pc |-> "idle", ignore_rate_limit |-> FALSE, now |-> 0, e |-> Null,
         requested |-> FALSE]

\* the thread's call has ended, returning (raised = Null) or raising
Ended(t, raised) ==
  /\ log' = Append(log, [ignore_rate_limit |-> threads[t].ignore_rate_limit,
                         now |-> threads[t].now,
                         requested |-> threads[t].requested,
                         raised |-> raised])
  /\ threads' = [threads EXCEPT ![t] = Idle]

----------------------------------------------------------------------------
(* The callers of Instagram.get_activities_response *)

MaxScrapes == 3
MaxTicks == 3
NumThreads == 2

\* the seconds that pass between two looks at the clock
Advances == {RATE_LIMIT_BACKOFF \div 2}

\* the microformats2 callers make no call
NoConversion ==
  /\ obj = Null
  /\ obj0 = Null
  /\ mf2 = Null
  /\ mf20 = Null
  /\ args = Null
  /\ rets = <<>>
  /\ page = <<>>
  /\ op = ""

\* the module as imported, and n threads about to call
InitScraping(n) ==
  /\ NoConversion
  /\ clock = 0
  /\ last_rate_limited = Null
  /\ last_rate_limited_exc = Null
  /\ threads = [t \in 1..n |-> Idle]
  /\ log = <<>>
  /\ cache = Null
  /\ cache_calls = <<>>
  /\ scrape = Null

\* one caller, making one call after the other
InitCalls == InitScraping(1)

\* several threads sharing the module
InitThreads == InitScraping(NumThreads)

\* time passes
Tick ==
  /\ \E d \in Advances :
       /\ clock < MaxTicks * d
       /\ clock' = clock + d
  /\ UNCHANGED <<mf_vars, last_rate_limited, last_rate_limited_exc, threads, log,
                 cache, cache_calls, scrape>>

\* line 205: a call with scrape=True gets as far as now = datetime.now()
Call(t) ==
  /\ threads[t].pc = "idle"
  /\ Len(log) + Cardinality({u \in DOMAIN threads : threads[u].pc # "idle"}) < MaxScrapes
  /\ \E ignore_rate_limit \in BOOLEAN :
       threads' = [threads EXCEPT ![t] = [pc |-> "check",
                                         ignore_rate_limit |-> ignore_rate_limit,
                                         now |-> clock, e |-> Null,
                                         requested |-> FALSE]]
  /\ UNCHANGED <<mf_vars, clock, last_rate_limited, last_rate_limited_exc, log,
                 cache, cache_calls, scrape>>

\* line 206: if not ignore_rate_limit and _last_rate_limited
CheckRemembered(t) ==
  /\ threads[t].pc = "check"
  /\ threads' = [threads EXCEPT ![t].pc =
                   IF ~threads[t].ignore_rate_limit /\ Truthy(last_rate_limited)
                   THEN "retry" ELSE "scrape"]
  /\ UNCHANGED <<mf_vars, clock, last_rate_limited, last_rate_limited_exc, log,
                 cache, cache_calls, scrape>>

\* lines 207-208: retry = _last_rate_limited + RATE_LIMIT_BACKOFF; if now < retry
CheckRetry(t) ==
  /\ threads[t].pc = "retry"
  /\ threads' = [threads EXCEPT ![t].pc =
                   IF Waiting(threads[t].now, last_rate_limited)
                   THEN "assert" ELSE "scrape"]
  /\ UNCHANGED <<mf_vars, clock, last_rate_limited, last_rate_limited_exc, log,
                 cache, cache_calls, scrape>>

\* line 211: assert _last_rate_limited_exc
AssertRemembered(t) ==
  /\ threads[t].pc = "assert"
  /\ IF Truthy(last_rate_limited_exc)
     THEN threads' = [threads EXCEPT ![t].pc = "raise"] /\ UNCHANGED log
     ELSE Ended(t, Raise("AssertionError"))
  /\ UNCHANGED <<mf_vars, clock, last_rate_limited, last_rate_limited_exc,
                 cache, cache_calls, scrape>>

\* line 212: raise _last_rate_limited_exc
RaiseRemembered(t) ==
  /\ threads[t].pc = "raise"
  /\ Ended(t, last_rate_limited_exc)
  /\ UNCHANGED <<mf_vars, clock, last_rate_limited, last_rate_limited_exc,
                 cache, cache_calls, scrape>>

\* lines 214-218: self._scrape(...) makes its HTTP request and returns
ScrapeReturns(t) ==
  /\ threads[t].pc = "scrape"
  /\ threads' = [threads EXCEPT ![t].requested = TRUE, ![t].pc = "return"]
  /\ UNCHANGED <<mf_vars, clock, last_rate_limited, last_rate_limited_exc, log,
                 cache, cache_calls, scrape>>

\* line 215: return
Return(t) ==
  /\ threads[t].pc = "return"
  /\ Ended(t, Null)
  /\ UNCHANGED <<mf_vars, clock, last_rate_limited, last_rate_limited_exc,
                 cache, cache_calls, scrape>>

\* lines 214-219: self._scrape(...) makes its HTTP request, which fails
ScrapeRaises(t) ==
  /\ threads[t].pc = "scrape"
  /\ \E code \in StatusCodes :
       threads' = [threads EXCEPT ![t].requested = TRUE, ![t].e = HTTPError(code),
                                  ![t].pc = "except"]
  /\ UNCHANGED <<mf_vars, clock, last_rate_limited, last_rate_limited_exc, log,
                 cache, cache_calls, scrape>>

\* lines 220-221: the except clause decides whether to remember the failure
Except(t) ==
  /\ threads[t].pc = "except"
  /\ threads' = [threads EXCEPT ![t].pc =
                   IF Remembered(threads[t].ignore_rate_limit, threads[t].e)
                   THEN "remember" ELSE "reraise"]
  /\ UNCHANGED <<mf_vars, clock, last_rate_limited, last_rate_limited_exc, log,
                 cache, cache_calls, scrape>>

\* line 223: _last_rate_limited = now
RememberTime(t) ==
  /\ threads[t].pc = "remember"
  /\ last_rate_limited' = Datetime(threads[t].now)
  /\ threads' = [threads EXCEPT ![t].pc = "remember_exc"]
  /\ UNCHANGED <<mf_vars, clock, last_rate_limited_exc, log, cache, cache_calls, scrape>>

\* line 224: _last_rate_limited_exc = e
RememberExc(t) ==
  /\ threads[t].pc = "remember_exc"
  /\ last_rate_limited_exc' = threads[t].e
  /\ threads' = [threads EXCEPT ![t].pc = "reraise"]
  /\ UNCHANGED <<mf_vars, clock, last_rate_limited, log, cache, cache_calls, scrape>>

\* line 225: raise
Reraise(t) ==
  /\ threads[t].pc = "reraise"
  /\ Ended(t, threads[t].e)
  /\ UNCHANGED <<mf_vars, clock, last_rate_limited, last_rate_limited_exc,
                 cache, cache_calls, scrape>>

NextScraping ==
  \/ Tick
  \/ \E t \in DOMAIN threads :
       \/ Call(t)
       \/ CheckRemembered(t)
       \/ CheckRetry(t)
       \/ AssertRemembered(t)
       \/ RaiseRemembered(t)
       \/ ScrapeReturns(t)
       \/ Return(t)
       \/ ScrapeRaises(t)
       \/ Except(t)
       \/ RememberTime(t)
       \/ RememberExc(t)
       \/ Reraise(t)

SpecCalls == InitCalls /\ [][NextScraping]_vars

SpecThreads == InitThreads /\ [][NextScraping]_vars

\* the k-th call made its request with ignore_rate_limit false and the request
\* failed with HTTP 302, 401, 429 or 503
Failed(k) ==
  /\ ~log[k].ignore_rate_limit
  /\ log[k].requested
  /\ IsRaise(log[k].raised)
  /\ log[k].raised.e = "HTTPError"
  /\ log[k].raised.code \in {"302", "401", "429", "503"}

\* the calls before the k-th that failed so
FailedBefore(k) == {j \in 1..(k - 1) : Failed(j)}

\* the latest of a non-empty set of calls
Latest(calls) == CHOOSE j \in calls : \A i \in calls : i <= j

\* C27: over any sequence of scraping calls, a call makes no HTTP request and
\* re-raises the remembered exception if and only if ignore_rate_limit is false
\* and an earlier call with ignore_rate_limit false failed with HTTP 302, 401,
\* 429 or 503 less than RATE_LIMIT_BACKOFF before it; every other call makes
\* the request; and the remembered state is that of the latest such failure,
\* whatever calls with ignore_rate_limit true were made.
C27_BackoffIffRemembered ==
  /\ \A k \in DOMAIN log :
       IF /\ ~log[k].ignore_rate_limit
          /\ \E j \in FailedBefore(k) : log[k].now - log[j].now < 5 * 60
       THEN /\ ~log[k].requested
            /\ log[k].raised = log[Latest(FailedBefore(k))].raised
       ELSE log[k].requested
  /\ (\A t \in DOMAIN threads : threads[t].pc = "idle")
       => IF FailedBefore(Len(log) + 1) = {}
          THEN last_rate_limited = Null /\ last_rate_limited_exc = Null
          ELSE /\ last_rate_limited = Datetime(log[Latest(FailedBefore(Len(log) + 1))].now)
               /\ last_rate_limited_exc = log[Latest(FailedBefore(Len(log) + 1))].raised

\* a request failed with 429; a call half the backoff later was refused with
\* the same error without a request; a call at the end of the backoff made its
\* request
C27_Witness ==
  /\ Len(log) = 3
  /\ log[1] = [ignore_rate_limit |-> FALSE, now |-> 0, requested |-> TRUE,
               raised |-> HTTPError("429")]
  /\ log[2] = [ignore_rate_limit |-> FALSE, now |-> 150, requested |-> FALSE,
               raised |-> HTTPError("429")]
  /\ log[3].now = 300 /\ ~log[3].ignore_rate_limit /\ log[3].requested

\* a call with ignore_rate_limit true was made during the backoff: it made its
\* request, failed with 503 and left the remembered failure as it was
C27_WitnessIgnore ==
  /\ Len(log) = 2
  /\ log[1].raised = HTTPError("429") /\ ~log[1].ignore_rate_limit
  /\ log[2].ignore_rate_limit /\ log[2].now = 150 /\ log[2].requested
  /\ log[2].raised = HTTPError("503")
  /\ last_rate_limited = Datetime(0)
  /\ last_rate_limited_exc = HTTPError("429")

\* C28: under every interleaving of the threads' calls, the assertion
\* 'assert _last_rate_limited_exc' never fails: whenever a call reaches it,
\* _last_rate_limited_exc is set.
C28_AssertionNeverFails ==
  /\ \A t \in DOMAIN threads :
       threads[t].pc = "assert" => last_rate_limited_exc # Null
  /\ \A k \in DOMAIN log : log[k].raised # Raise("AssertionError")

----------------------------------------------------------------------------
(* instagram.py: Instagram._scrape with fetch_extras *)

MaxActivities == 2

\* a dict with no key
EmptyMap == [k \in {} |-> 0]

\* dict.update: d with the entries of u
Update(d, u) ==
  [k \in DOMAIN d \cup DOMAIN u |-> IF k \in DOMAIN u THEN u[k] ELSE d[k]]

\* a cache object holding the entries d
Cache(d) == [t |-> "cache", d |-> d]

\* lines 349-350: 'AIL %s' % id and 'AIC %s' % id
LikesKey(id) == <<"AIL", id>>
CommentsKey(id) == <<"AIC", id>>

\* line 341: keys.extend(['AIL ' + id, 'AIC ' + id]) over the activities
CacheKeys(activities) ==
  UNION {{LikesKey(activities[i].id), CommentsKey(activities[i].id)} :
           i \in DOMAIN activities}

\* line 342: cache.get_multi(keys), the entries the cache has of the keys
GetMulti(c, keys) == [k \in keys \cap DOMAIN c.d |-> c.d[k]]

\* lines 352-353: likes and likes != cached.get(likes_key) or
\* comments and comments != cached.get(comments_key)
Refetch(activity, cached) ==
  \/ /\ activity.likes # 0
     /\ ~ (/\ LikesKey(activity.id) \in DOMAIN cached
           /\ cached[LikesKey(activity.id)] = activity.likes)
  \/ /\ activity.comments # 0
     /\ ~ (/\ CommentsKey(activity.id) \in DOMAIN cached
           /\ cached[CommentsKey(activity.id)] = activity.comments)

\* mutant of Updated: the counts are kept whatever the re-fetch gave
UpdatedAlways(cache_updates, full_activity, activity) ==
  Update(cache_updates,
         (LikesKey(activity.id) :> activity.likes)
           @@ (CommentsKey(activity.id) :> activity.comments))

\* lines 362-364: if full_activity: cache_updates.update({likes_key: likes,
\* comments_key: comments})
Updated(cache_updates, full_activity, activity) ==
  IF full_activity
  THEN Update(cache_updates,
              (LikesKey(activity.id) :> activity.likes)
                @@ (CommentsKey(activity.id) :> activity.comments))
  ELSE cache_updates

----------------------------------------------------------------------------
(* The caller of Instagram._scrape *)

\* the scraped activities: an id, obj['ig_like_count'] or 0 and
\* obj['replies']['totalItems'] or 0
ScrapedActivities ==
  UNION {[1..n -> [id : {"a", "b"}, likes : {0, 2}, comments : {0, 1}]] :
           n \in 0..MaxActivities}

\* the caches passed in: none, an empty one, one that knows the counts of a,
\* one that knows other counts
Caches ==
  {Null, Cache(EmptyMap),
   Cache((LikesKey("a") :> 2) @@ (CommentsKey("a") :> 1)),
   Cache((LikesKey("a") :> 1) @@ (CommentsKey("a") :> 1)
           @@ (LikesKey("b") :> 2) @@ (CommentsKey("b") :> 0))}

\* _scrape(fetch_extras=True, cache=cache) has scraped its page; single says
\* that it was called with an activity_id or a shortcode
InitScrape ==
  /\ NoConversion
  /\ clock = 0
  /\ last_rate_limited = Null
  /\ last_rate_limited_exc = Null
  /\ threads = <<>>
  /\ log = <<>>
  /\ cache \in Caches
  /\ cache_calls = <<>>
  /\ \E activities \in ScrapedActivities, single \in BOOLEAN :
       scrape = [pc |-> "scraped", activities |-> activities, single |-> single,
                 cache0 |-> cache, cached |-> EmptyMap, cache_updates |-> EmptyMap,
                 i |-> 1, fetched |-> {}, requests |-> 0]

\* lines 334-342: cached = {}; cache_updates = {}; cached = cache.get_multi(keys)
\* if there is a cache
GetCached ==
  /\ scrape.pc = "scraped"
  /\ IF cache # Null
     THEN /\ scrape' = [scrape EXCEPT !.pc = "loop",
                          !.cached = GetMulti(cache, CacheKeys(scrape.activities))]
          /\ cache_calls' = Append(cache_calls,
                                   [op |-> "get_multi",
                                    arg |-> CacheKeys(scrape.activities),
                                    processed |-> 0])
     ELSE /\ scrape' = [scrape EXCEPT !.pc = "loop"]
          /\ UNCHANGED cache_calls
  /\ UNCHANGED <<mf_vars, clock, last_rate_limited, last_rate_limited_exc, threads,
                 log, cache>>

\* lines 344-353: an activity whose counts are zero or the cached ones is left
\* as it is
Keep ==
  /\ scrape.pc = "loop"
  /\ scrape.i <= Len(scrape.activities)
  /\ ~Refetch(scrape.activities[scrape.i], scrape.cached)
  /\ scrape' = [scrape EXCEPT !.i = scrape.i + 1]
  /\ UNCHANGED <<mf_vars, clock, last_rate_limited, last_rate_limited_exc, threads,
                 log, cache, cache_calls>>

\* lines 352-364: the activity is fetched again (or the response of the single
\* activity is used again), and scraped_to_activities finds the full activity
\* in it or nothing
Fetch ==
  /\ scrape.pc = "loop"
  /\ scrape.i <= Len(scrape.activities)
  /\ Refetch(scrape.activities[scrape.i], scrape.cached)
  /\ \E full_activity \in BOOLEAN :
       scrape' = [scrape EXCEPT
                    !.i = scrape.i + 1,
                    !.requests = IF scrape.single THEN @ ELSE @ + 1,
                    !.fetched = IF full_activity THEN @ \cup {scrape.i} ELSE @,
                    !.cache_updates = Updated(@, full_activity,
                                              scrape.activities[scrape.i])]
  /\ UNCHANGED <<mf_vars, clock, last_rate_limited, last_rate_limited_exc, threads,
                 log, cache, cache_calls>>

\* lines 354-357: util.requests_get or resp.raise_for_status() raises, and the
\* exception leaves _scrape
FetchRaises ==
  /\ scrape.pc = "loop"
  /\ scrape.i <= Len(scrape.activities)
  /\ Refetch(scrape.activities[scrape.i], scrape.cached)
  /\ ~scrape.single
  /\ scrape' = [scrape EXCEPT !.pc = "raised", !.requests = @ + 1]
  /\ UNCHANGED <<mf_vars, clock, last_rate_limited, last_rate_limited_exc, threads,
                 log, cache, cache_calls>>

\* lines 366-371: if cache_updates and cache is not None:
\* cache.set_multi(cache_updates); and the response is returned
SetCached ==
  /\ scrape.pc = "loop"
  /\ scrape.i > Len(scrape.activities)
  /\ IF scrape.cache_updates # EmptyMap /\ cache # Null
     THEN /\ cache' = Cache(Update(cache.d, scrape.cache_updates))
          /\ cache_calls' = Append(cache_calls,
                                   [op |-> "set_multi",
                                    arg |-> scrape.cache_updates,
                                    processed |-> scrape.i - 1])
     ELSE UNCHANGED <<cache, cache_calls>>
  /\ scrape' = [scrape EXCEPT !.pc = "returned"]
  /\ UNCHANGED <<mf_vars, clock, last_rate_limited, last_rate_limited_exc, threads,
                 log>>

NextScrape ==
  \/ GetCached
  \/ Keep
  \/ Fetch
  \/ FetchRaises
  \/ SetCached

SpecScrape == InitScrape /\ [][NextScrape]_vars

\* the calls of cache.set_multi so far
SetMultis == SelectSeq(cache_calls, LAMBDA c : c.op = "set_multi")

\* the counts of the activities whose re-fetch gave the full activity, by key
FetchedCounts ==
  [k \in UNION {{LikesKey(scrape.activities[i].id),
                 CommentsKey(scrape.activities[i].id)} : i \in scrape.fetched} |->
     LET last == CHOOSE i \in scrape.fetched :
                   /\ k \in {LikesKey(scrape.activities[i].id),
                             CommentsKey(scrape.activities[i].id)}
                   /\ \A j \in scrape.fetched :
                        k \in {LikesKey(scrape.activities[j].id),
                               CommentsKey(scrape.activities[j].id)} => j <= i
     IN  IF k[1] = "AIL" THEN scrape.activities[last].likes
         ELSE scrape.activities[last].comments]

\* C29: in _scrape with fetch_extras and a cache, the cache is written at most
\* once, by one set_multi after all activities have been processed, and only
\* with the like and comment counts of activities whose full re-fetch
\* succeeded; if a per-activity fetch raises, the call fails with the cache
\* exactly as it was before the call.
C29_CacheWrittenOnceAtEnd ==
  scrape.cache0 # Null =>
    /\ Len(SetMultis) <= 1
    /\ \A k \in DOMAIN SetMultis :
         /\ scrape.pc = "returned"
         /\ SetMultis[k].processed = Len(scrape.activities)
         /\ SetMultis[k].arg = FetchedCounts
         /\ cache = Cache(Update(scrape.cache0.d, FetchedCounts))
    /\ SetMultis = <<>> => cache = scrape.cache0
    /\ scrape.pc = "raised" => SetMultis = <<>> /\ cache = scrape.cache0

\* two activities were fetched again, the first gave its full activity and the
\* second nothing, and the cache was given the counts of the first only
C29_Witness ==
  /\ scrape.pc = "returned"
  /\ scrape.cache0 # Null
  /\ Len(scrape.activities) = 2
  /\ scrape.activities[1].id # scrape.activities[2].id
  /\ scrape.fetched = {1}
  /\ scrape.requests = 2
  /\ Len(SetMultis) = 1
  /\ DOMAIN SetMultis[1].arg = {LikesKey(scrape.activities[1].id),
                                CommentsKey(scrape.activities[1].id)}
  /\ cache # scrape.cache0

\* the first re-fetch gave the full activity and the second raised: nothing
\* was written
C29_WitnessRaised ==
  /\ scrape.pc = "raised"
  /\ scrape.cache0 # Null
  /\ scrape.fetched = {1}
  /\ scrape.cache_updates # EmptyMap
  /\ cache = scrape.cache0
  /\ SetMultis = <<>>

----------------------------------------------------------------------------
(* api.py: get_kwargs *)

ITEMS_PER_PAGE_MAX == 100
ITEMS_PER_PAGE_DEFAULT == 10

\* the decimal digits and their values
DigitValue ==
  [c \in {"0", "1", "2", "3", "4", "5", "6", "7", "8", "9"} |->
     CASE c = "0" -> 0 [] c = "1" -> 1 [] c = "2" -> 2 [] c = "3" -> 3
       [] c = "4" -> 4 [] c = "5" -> 5 [] c = "6" -> 6 [] c = "7" -> 7
       [] c = "8" -> 8 [] c = "9" -> 9]

\* the number a sequence of digits writes
RECURSIVE DigitsValue(_)
DigitsValue(chars) ==
  IF chars = <<>> THEN 0
  ELSE 10 * DigitsValue(SubSeq(chars, 1, Len(chars) - 1))
         + DigitValue[chars[Len(chars)]]

\* int(val) for a string of the model: an optional sign and one or more
\* digits, or a ValueError
PyInt(chars) ==
  LET digits == IF chars # <<>> /\ chars[1] = "-" THEN Tail(chars) ELSE chars
  IN  IF digits # <<>> /\ \A i \in DOMAIN digits : digits[i] \in DOMAIN DigitValue
      THEN Num(IF digits = chars THEN DigitsValue(digits)
               ELSE 0 - DigitsValue(digits))
      ELSE Raise("ValueError")

\* lines 187-195: get_positive_int(param), with val what request.args holds
\* for param (Absent for a parameter the request does not have)
get_positive_int(val) ==
  LET n == IF val = Absent THEN Num(0) ELSE PyInt(val.s)
  IN  IF IsRaise(n) \/ n.n < 0 THEN Raise("BadRequest") ELSE n

\* lines 169-172: count 0 becomes ITEMS_PER_PAGE_DEFAULT - start_index, any
\* other count min(count, ITEMS_PER_PAGE_MAX)
PageCount(start_index, count) ==
  IF count = 0 THEN ITEMS_PER_PAGE_DEFAULT - start_index
  ELSE IF count < ITEMS_PER_PAGE_MAX THEN count ELSE ITEMS_PER_PAGE_MAX

\* lines 160-184: get_kwargs() for a request with these startIndex and count
\* parameters and no search query or cookie
get_kwargs(startIndex, count) ==
  LET start_index == get_positive_int(startIndex)
      n == get_positive_int(count)
  IN  IF IsRaise(start_index) THEN start_index
      ELSE IF IsRaise(n) THEN n
      ELSE [t |-> "kwargs", start_index |-> start_index.n,
            count |-> PageCount(start_index.n, n.n)]

----------------------------------------------------------------------------
(* The caller of get_kwargs *)

MaxDigits == 3

\* the characters of the request parameters
ParamChars == {"0", "1", "2", "9", "-", "a"}

\* the values request.args holds for a parameter
Params ==
  {Absent} \cup
  {Str(chars) : chars \in UNION {[1..n -> ParamChars] : n \in 0..MaxDigits}}

\* a request has arrived
InitApi ==
  /\ args \in [startIndex : Params, count : Params]
  /\ obj = Null
  /\ obj0 = Null
  /\ mf2 = Null
  /\ mf20 = Null
  /\ rets = <<>>
  /\ page = <<>>
  /\ op = ""
  /\ NoScraping

\* ret = get_kwargs()
GetKwargs ==
  /\ op = ""
  /\ rets' = <<get_kwargs(args.startIndex, args.count)>>
  /\ op' = "get_kwargs"
  /\ UNCHANGED <<obj, obj0, mf2, mf20, args, page>>
  /\ UNCHANGED instagram_vars

NextApi == GetKwargs

SpecApi == InitApi /\ [][NextApi]_vars

\* the request's parameter is a non-negative integer, or left out
NonNegative(val) == val = Absent \/ (PyInt(val.s).t = "int" /\ PyInt(val.s).n >= 0)

\* C30: for all non-negative integer startIndex and count parameters,
\* get_kwargs returns a count that is never negative and never greater than
\* ITEMS_PER_PAGE_MAX (100).
C30_CountInRange ==
  (op = "get_kwargs" /\ NonNegative(args.startIndex) /\ NonNegative(args.count))
    => /\ ~IsRaise(rets[1])
       /\ rets[1].count >= 0
       /\ rets[1].count <= 100

\* what holds of the count: it is never greater than 100, it is the default
\* page size less startIndex for a count of 0 and the smaller of count and 100
\* otherwise, and it is negative exactly for a count of 0 with a startIndex
\* over the default page size
CountAsComputed ==
  (op = "get_kwargs" /\ NonNegative(args.startIndex) /\ NonNegative(args.count))
    => LET start_index == IF args.startIndex = Absent THEN 0
                          ELSE PyInt(args.startIndex.s).n
           count == IF args.count = Absent THEN 0 ELSE PyInt(args.count.s).n
       IN  /\ ~IsRaise(rets[1])
           /\ rets[1].start_index = start_index
           /\ rets[1].count <= 100
           /\ count = 0 => rets[1].count = 10 - start_index
           /\ count # 0 => rets[1].count = IF count < 100 THEN count ELSE 100
           /\ rets[1].count < 0 <=> (count = 0 /\ start_index > 10)

\* a request for startIndex 11 with no count gets the count -1
NegativeCount ==
  /\ op = "get_kwargs"
  /\ args.startIndex = Str(<<"1", "1">>)
  /\ args.count = Absent
  /\ rets[1] = [t |-> "kwargs", start_index |-> 11, count |-> 0 - 1]

====
